---- MODULE Spec2Model ----
(***************************************************************************)
(* Model of the telemetry pipeline: main() loads a session, builds the UDP *)
(* streamer, runs UDPTelemetryStreamer.stream_session over the packets     *)
(* pulled lazily from F1DataSource.generate_packets, and closes the socket *)
(* in its finally block.                                                   *)
(*                                                                         *)
(* Time is the reading of time.perf_counter() in whole milliseconds (now). *)
(* Work that takes time (building a packet, the sendto call, the sleep)    *)
(* advances it; reading the clock does not.                                *)
(***************************************************************************)
EXTENDS Integers, Sequences, FiniteSets, TLC

(* ----------------------------- bounds ---------------------------------- *)
\* number of rows of the uniform (interpolated) telemetry, len(telemetry)
NumSamples == 3
\* milliseconds one step of the packet generator may take
GenDelays == {0, 6}
\* milliseconds a successful sendto (with serialisation) may take
SendDurations == {0, 11}
\* milliseconds time.sleep may return after the time asked for
Oversleeps == {0, 3}
\* packet intervals spanned by the long session, whose stream outgrows the
\* latency window
LongSamples == 1002
\* most raw samples of one lap, in a call of the lap locator
MaxLapLen == 6
\* largest number of rows of the uniform telemetry, in a call of the lap locator
MaxTotal == 15
\* latest raw timestamp (ms), in a call of the resampler
MaxRawTime == 12
\* draws of np.random.normal(0, 2), in hundredths of a degree
NoiseCenti == {-400, 0, 1000, 1100}
\* readings of time.time() * 1000 when generate_packets starts, in two runs
\* over the same row and in a streamed run
BaseTimestamps == {1000, 1007}
StreamBaseTimestamps == {1000}
\* draws of np.random.normal(0, 2) in a streamed run, in hundredths of a
\* degree: none, and one of nine standard deviations
StreamNoiseCenti == {0, 1800}
\* the conversions of one pass of generate_packets in which a KeyboardInterrupt
\* arrives and is taken by the bare except of safe_int or safe_float, by the
\* column converted: none, the RPM, the throttle
CaughtConversions == {{}, {"RPM"}, {"Throttle"}}
\* time.time() - self.start_time when _print_metrics reads it, in ms: the
\* wall clock is another clock than time.perf_counter, of coarser resolution
\* on some platforms and liable to be set, so it can show no time at all
\* since the first packet
WallElapsed == {0, 2}

(* ------------------------- program constants --------------------------- *)
BASE_FREQUENCY_HZ == 500
MAX_LATENCY_MS == 10
PACKET_INTERVAL_MS == 1000 \div BASE_FREQUENCY_HZ
\* deque(maxlen=1000)
LATENCY_WINDOW_MAXLEN == 1000
\* main() always calls stream_session(data_source, realtime=True)
realtime == TRUE
\* (start_idx, end_idx, lap_number) rows that load_session builds from the
\* raw laps: two laps of two raw samples each
RawLapBoundaries == << <<0, 1, 1>>, <<2, 3, 2>> >>

VARIABLES
    pc,                 \* position of the single thread of main()
    exc,                \* exception in flight: "none", "KeyboardInterrupt",
                        \* "KeyboardInterruptInHandler", "Error"
    now,                \* time.perf_counter(), in ms
    \* F1DataSource
    session,            \* the raw session that self.session holds once loaded
    load_result,        \* what load_session returned to main(): "none" while
                        \* it has not returned, then "True" or "False"
    car_data_loaded,    \* self.car_data is not None
    car_data,           \* the 'Time' column of self.car_data, in whole ms
    lap_boundaries,     \* self.lap_boundaries
    packet_counter,     \* self.packet_counter
    ds_current_lap,     \* F1DataSource.current_lap
    idx,                \* loop index of generate_packets (rows already yielded)
    total_interpolated_samples, \* len(telemetry) in generate_packets
    base_timestamp,     \* int(start_time * 1000) of generate_packets
    gen_packet,         \* the packet generate_packets has built and not yet yielded
    \* UDPTelemetryStreamer
    sock,               \* "none", "open", "closed"
    packets_sent,
    packets_dropped,
    bytes_sent,
    latencies_us,       \* deque(maxlen=1000)
    current_lap,        \* UDPTelemetryStreamer.current_lap
    \* locals of stream_session
    first_packet,
    last_packet_time,
    packet,             \* the packet of the current iteration
    send_start,
    send_latency_us,
    current_time,       \* the clock as the cadence step read it
    \* observation of the run (what an outside observer of the calls sees)
    acquired,           \* number of socket.socket() calls
    closed,             \* number of socket.close() calls
    attempts,           \* packet ids handed to socket.sendto, in call order
    yielded,            \* packet ids yielded by generate_packets, in order
    results,            \* how each sendto call ended: "ok", "blocked", "error"
    iter0,              \* counters and window as they were when this iteration began
    cadence_log,        \* one record per execution of the cadence step
    metrics_log,        \* one record per call of _print_metrics
    latency_log,        \* every latency appended to the window, in order
    yield_log,          \* id, timestamp and lap of every packet yielded, in order
    interrupted_at,     \* pc at which a KeyboardInterrupt was delivered
    \* a single call of one of the pure functions of F1DataSource
    call,               \* the function and its arguments
    ret                 \* what it returned

vars == << pc, exc, now, car_data_loaded, lap_boundaries, packet_counter,
           ds_current_lap, idx, sock, packets_sent, packets_dropped, bytes_sent,
           latencies_us, current_lap, first_packet, last_packet_time, packet,
           send_start, send_latency_us, acquired, closed, attempts, yielded,
           results, iter0, cadence_log, metrics_log, interrupted_at,
           car_data, total_interpolated_samples, latency_log, call, ret,
           base_timestamp, yield_log, gen_packet, session, current_time,
           load_result >>

dsVars == << session, load_result, car_data_loaded, car_data, lap_boundaries,
             packet_counter, ds_current_lap, idx, total_interpolated_samples,
             base_timestamp, gen_packet >>
counterVars == << packets_sent, packets_dropped, bytes_sent, latencies_us >>
localVars == << first_packet, last_packet_time, packet, send_start,
               send_latency_us, current_time >>
sockVars == << sock, acquired, closed >>
logVars == << attempts, yielded, results, iter0, cadence_log, metrics_log,
             latency_log, yield_log >>
fnVars == << call, ret >>

NoCall == [fn |-> "none"]
NoRet == [fn |-> "none"]

\* how the most recent sendto call ended
Outcome == IF results = << >> THEN "none" ELSE results[Len(results)]

\* A packet is held by its id, its timestamp and the length of its encoding,
\* len(packet.to_udp_bytes()).
NoPacket == [packet_id |-> -1, timestamp_ms |-> 0, nbytes |-> 0]

\* positions inside the try block of main(), i.e. inside stream_session
StreamPcs == {"stream_start", "gen_start", "generate", "gen_build", "gen_yield",
              "prepare", "sendto", "count_drop", "record_latency", "check_budget",
              "count_sent", "count_bytes", "cadence", "sleeping", "stamp",
              "end_iteration", "metrics"}
\* positions of main() outside the try statement and its handler: inside
\* load_session (its fallback included), at the print after a failed load, in the constructor of the
\* streamer, at the prints before the try, and in the finally block
OutsidePcs == {"load", "load_laps", "load_fallback", "load_clean",
               "load_failed", "init_streamer", "init_counters", "pre_try",
               "finally", "after_close"}

(* ------------------------------ helpers -------------------------------- *)
\* variant: deque.appendleft, the newest entry going to the front
DequeAppend_AppendLeft(q, x) ==
    IF Len(q) < LATENCY_WINDOW_MAXLEN THEN << x >> \o q
    ELSE << x >> \o SubSeq(q, 1, Len(q) - 1)

\* deque.append on a deque with maxlen: the oldest entry falls out when full
DequeAppend(q, x) ==
    IF Len(q) < LATENCY_WINDOW_MAXLEN THEN Append(q, x)
    ELSE Append(Tail(q), x)

(* ---------------- IEEE-754 double arithmetic (Python float) ------------- *)
\* A non-negative double is held exactly, as a big-endian string of base-512
\* digits of which the last FRAC_DIGITS are fractional: the value is the
\* integer the digits spell divided by 512^FRAC_DIGITS.  Every operation
\* rounds its exact result to 53 significant bits, ties to even, as the
\* hardware does.  Only what the program applies to non-negative values is
\* defined: int / int, int * float, int(float), the sum and the difference
\* of two doubles and the half of one, for operands below 2^22 and quotients
\* not below 2^-22.
MANTISSA_BITS == 53
DIGIT_BITS == 9
DIGIT_BASE == 512
FRAC_DIGITS == 9
TwoTo == << 1, 2, 4, 8, 16, 32, 64, 128, 256, 512 >>

\* the base-512 digits of an integer n >= 0 (none for 0)
RECURSIVE IntDigits(_)
IntDigits(n) ==
    IF n = 0 THEN << >>
    ELSE Append(IntDigits(n \div DIGIT_BASE), n % DIGIT_BASE)

\* the integer a digit string spells
RECURSIVE DigitsInt(_)
DigitsInt(d) ==
    IF d = << >> THEN 0
    ELSE DIGIT_BASE * DigitsInt(SubSeq(d, 1, Len(d) - 1)) + d[Len(d)]

RECURSIVE StripZeros(_)
StripZeros(d) ==
    IF d # << >> /\ Head(d) = 0 THEN StripZeros(Tail(d)) ELSE d

AnyNonZero(d) == \E i \in 1..Len(d) : d[i] # 0

\* number of bits of a digit 1..511
DigitBitLen(x) == CHOOSE k \in 1..DIGIT_BITS : TwoTo[k] <= x /\ x < TwoTo[k + 1]

\* the digit string plus x at its last place, carries propagated
RECURSIVE AddLast(_, _)
AddLast(d, x) ==
    IF x = 0 THEN d
    ELSE IF d = << >> THEN IntDigits(x)
    ELSE Append(AddLast(SubSeq(d, 1, Len(d) - 1), (d[Len(d)] + x) \div DIGIT_BASE),
                (d[Len(d)] + x) % DIGIT_BASE)

\* round-half-to-even to 53 significant bits of the integer the digits
\* spell; sticky says that a non-zero remainder lies below the last digit
RoundToDouble(digits, sticky) ==
    LET ds == StripZeros(digits)
        n == Len(ds)
        bl == IF n = 0 THEN 0 ELSE DigitBitLen(ds[1]) + DIGIT_BITS * (n - 1)
        drop == bl - MANTISSA_BITS          \* low bits to round away
        qd == drop \div DIGIT_BITS          \* whole digits among them
        off == drop % DIGIT_BITS            \* bits of the boundary digit
        ib == n - qd                        \* the boundary digit
        unit == TwoTo[off + 1]
        kept == (ds[ib] \div unit) * unit
        guard == IF off > 0 THEN (ds[ib] \div TwoTo[off]) % 2
                 ELSE ds[ib + 1] \div TwoTo[DIGIT_BITS]
        below == IF off > 0
                 THEN ds[ib] % TwoTo[off] # 0 \/ AnyNonZero(SubSeq(ds, ib + 1, n))
                 ELSE ds[ib + 1] % TwoTo[DIGIT_BITS] # 0
                         \/ AnyNonZero(SubSeq(ds, ib + 2, n))
        odd == (ds[ib] \div unit) % 2 = 1
        up == guard = 1 /\ (below \/ sticky \/ odd)
    IN IF drop <= 0 THEN ds
       ELSE AddLast(Append(SubSeq(ds, 1, ib - 1), kept), IF up THEN unit ELSE 0)
              \o [i \in 1..qd |-> 0]

\* long division: the next k base-512 digits of r / b, and the remainder
RECURSIVE FracDigits(_, _, _)
FracDigits(r, b, k) ==
    IF k = 0 THEN [digits |-> << >>, rem |-> r]
    ELSE LET rest == FracDigits((r * DIGIT_BASE) % b, b, k - 1)
         IN [digits |-> << (r * DIGIT_BASE) \div b >> \o rest.digits,
             rem |-> rest.rem]

\* a / b for integers a >= 0, b > 0, correctly rounded
FloatDiv(a, b) ==
    LET q == FracDigits(a % b, b, FRAC_DIGITS)
    IN RoundToDouble(IntDigits(a \div b) \o q.digits, q.rem # 0)

\* the digit string times n, with the carry coming in from below
RECURSIVE MulDigits(_, _, _)
MulDigits(d, n, carry) ==
    IF d = << >> THEN IntDigits(carry)
    ELSE LET v == n * d[Len(d)] + carry
         IN Append(MulDigits(SubSeq(d, 1, Len(d) - 1), n, v \div DIGIT_BASE),
                   v % DIGIT_BASE)

\* n * x for an integer n >= 0 and a double x, correctly rounded
FloatMulInt(n, x) == RoundToDouble(MulDigits(x, n, 0), FALSE)

\* int(x) for a double x >= 0: the integer part
FloatToInt(x) ==
    IF Len(x) <= FRAC_DIGITS THEN 0
    ELSE DigitsInt(SubSeq(x, 1, Len(x) - FRAC_DIGITS))

\* float(n) for an integer n >= 0
FloatOfInt(n) == FloatDiv(n, 1)

\* the digit string with zeros in front, n digits long
PadTo(d, n) == [i \in 1..n |-> IF i <= n - Len(d) THEN 0 ELSE d[i - (n - Len(d))]]

\* the sum of two digit strings of one length, with the carry from below
RECURSIVE AddDigits(_, _, _)
AddDigits(a, b, carry) ==
    IF a = << >> THEN IntDigits(carry)
    ELSE LET v == a[Len(a)] + b[Len(b)] + carry
         IN Append(AddDigits(SubSeq(a, 1, Len(a) - 1), SubSeq(b, 1, Len(b) - 1),
                             v \div DIGIT_BASE),
                   v % DIGIT_BASE)

\* x + y for doubles x, y >= 0, correctly rounded
FloatAdd(x, y) ==
    LET n == IF Len(x) > Len(y) THEN Len(x) ELSE Len(y)
    IN RoundToDouble(AddDigits(PadTo(x, n), PadTo(y, n), 0), FALSE)

\* the difference of two digit strings of one length, the first spelling the
\* larger number, with the borrow from below
RECURSIVE SubDigits(_, _, _)
SubDigits(a, b, borrow) ==
    IF a = << >> THEN << >>
    ELSE LET v == a[Len(a)] - b[Len(b)] - borrow
         IN Append(SubDigits(SubSeq(a, 1, Len(a) - 1), SubSeq(b, 1, Len(b) - 1),
                             IF v < 0 THEN 1 ELSE 0),
                   IF v < 0 THEN v + DIGIT_BASE ELSE v)

\* x - y for doubles x >= y >= 0, correctly rounded
FloatSub(x, y) ==
    LET n == IF Len(x) > Len(y) THEN Len(x) ELSE Len(y)
    IN RoundToDouble(SubDigits(PadTo(x, n), PadTo(y, n), 0), FALSE)

\* 0.5 * x for a double x whose last bit is not below 2^-80: the digits
\* times 256, moved one place down
FloatHalf(x) ==
    LET p == MulDigits(x, DIGIT_BASE \div 2, 0)
    IN SubSeq(p, 1, Len(p) - 1)

\* np.sin(k / 100) for k = 0, 1, ..., 1023, as the C library computes it for
\* the double k / 100: 1 for a negative value, 0 otherwise, and then the
\* digits of the magnitude
SinTable ==
    << <<0>>, <<0,5,61,202,466,87,320,112,0,0>>,
       <<0,10,122,271,310,298,390,224,0,0>>, <<0,15,183,71,454,179,124,192,0,0>>,
       <<0,20,242,493,296,167,95,192,0,0>>, <<0,25,301,378,279,502,135,256,0,0>>,
       <<0,30,359,104,364,133,466,384,0,0>>, <<0,35,415,50,30,236,64,128,0,0>>,
       <<0,40,469,80,337,40,261,256,0,0>>, <<0,46,9,62,342,347,109,128,0,0>>,
       <<0,51,58,374,184,377,203,0,0,0>>, <<0,56,105,370,62,254,458,384,0,0>>,
       <<0,61,149,428,243,412,371,128,0,0>>, <<0,66,190,416,47,484,30,0,0,0>>,
       <<0,71,228,199,412,237,183,256,0,0>>, <<0,76,262,158,315,507,145,0,0,0>>,
       <<0,81,292,159,369,25,23,256,0,0>>, <<0,86,318,70,260,435,434,0,0,0>>,
       <<0,91,339,270,302,47,34,256,0,0>>, <<0,96,356,115,407,370,430,256,0,0>>,
       <<0,101,367,498,103,372,350,0,0,0>>, <<0,106,374,262,69,441,419,256,0,0>>,
       <<0,111,375,300,98,210,443,256,0,0>>, <<0,116,370,481,124,464,268,0,0,0>>,
       <<0,121,360,162,234,432,478,0,0,0>>, <<0,126,343,237,158,197,187,256,0,0>>,
       <<0,131,320,63,301,15,445,0,0,0>>, <<0,136,290,23,214,152,292,0,0,0>>,
       <<0,141,252,499,138,186,138,0,0,0>>, <<0,146,208,337,496,357,502,0,0,0>>,
       <<0,151,156,434,366,349,51,0,0,0>>, <<0,156,97,149,46,97,431,0,0,0>>,
       <<0,161,29,377,36,93,314,0,0,0>>, <<0,165,465,479,23,125,1,0,0,0>>,
       <<0,170,381,327,422,65,8,0,0,0>>, <<0,175,288,308,334,133,139,0,0,0>>,
       <<0,180,186,295,114,122,393,0,0,0>>, <<0,185,75,161,352,150,479,0,0,0>>,
       <<0,189,466,294,344,374,313,0,0,0>>, <<0,194,336,57,148,180,325,0,0,0>>,
       <<0,199,195,349,74,435,363,0,0,0>>, <<0,204,45,22,185,91,107,0,0,0>>,
       <<0,208,395,489,295,454,323,0,0,0>>, <<0,213,224,91,497,231,165,0,0,0>>,
       <<0,218,41,243,136,280,97,0,0,0>>, <<0,222,359,309,382,163,37,0,0,0>>,
       <<0,227,154,170,136,311,224,0,0,0>>, <<0,231,449,216,136,82,48,0,0,0>>,
       <<0,236,220,327,398,405,309,0,0,0>>, <<0,240,491,385,229,275,32,0,0,0>>,
       <<0,245,238,270,274,386,496,0,0,0>>, <<0,249,484,376,480,109,419,0,0,0>>,
       <<0,254,206,75,97,68,86,0,0,0>>, <<0,258,426,272,248,101,410,0,0,0>>,
       <<0,263,121,340,349,279,388,0,0,0>>, <<0,267,315,164,164,360,424,0,0,0>>,
       <<0,271,495,140,322,260,164,0,0,0>>, <<0,276,149,155,274,498,356,0,0,0>>,
       <<0,280,301,95,351,71,424,0,0,0>>, <<0,284,438,360,226,446,292,0,0,0>>,
       <<0,289,49,325,466,321,178,0,0,0>>, <<0,293,157,392,481,95,232,0,0,0>>,
       <<0,297,250,451,69,174,398,0,0,0>>, <<0,301,328,390,447,281,344,0,0,0>>,
       <<0,305,391,103,159,280,336,0,0,0>>, <<0,309,437,504,201,471,342,0,0,0>>,
       <<0,313,468,462,445,326,320,0,0,0>>, <<0,317,483,384,153,276,472,0,0,0>>,
       <<0,321,482,163,33,407,346,0,0,0>>, <<0,325,464,206,197,154,192,0,0,0>>,
       <<0,329,429,410,163,25,368,0,0,0>>, <<0,333,378,159,399,232,134,0,0,0>>,
       <<0,337,309,376,281,316,380,0,0,0>>, <<0,341,223,447,144,297,354,0,0,0>>,
       <<0,345,120,271,264,254,64,0,0,0>>, <<0,348,511,261,351,399,26,0,0,0>>,
       <<0,352,372,319,68,105,250,0,0,0>>, <<0,356,215,346,55,492,396,0,0,0>>,
       <<0,360,40,245,406,332,456,0,0,0>>, <<0,363,358,434,154,124,284,0,0,0>>,
       <<0,367,146,304,351,510,410,0,0,0>>, <<0,370,427,274,493,159,430,0,0,0>>,
       <<0,374,177,252,52,276,464,0,0,0>>, <<0,377,420,144,25,386,460,0,0,0>>,
       <<0,381,131,371,375,235,246,0,0,0>>, <<0,384,335,333,35,128,262,0,0,0>>,
       <<0,388,7,450,498,221,252,0,0,0>>, <<0,391,172,125,190,294,416,0,0,0>>,
       <<0,394,316,293,106,14,288,0,0,0>>, <<0,397,440,356,228,190,352,0,0,0>>,
       <<0,401,32,230,46,424,130,0,0,0>>, <<0,404,115,342,96,311,296,0,0,0>>,
       <<0,407,178,97,427,109,20,0,0,0>>, <<0,410,219,439,94,346,168,0,0,0>>,
       <<0,413,240,261,237,387,456,0,0,0>>, <<0,416,239,508,498,38,222,0,0,0>>,
       <<0,419,218,79,48,96,80,0,0,0>>, <<0,422,174,430,155,317,326,0,0,0>>,
       <<0,425,109,462,90,426,28,0,0,0>>, <<0,428,23,99,203,66,314,0,0,0>>,
       <<0,430,426,291,388,268,476,0,0,0>>, <<0,433,295,454,93,272,108,0,0,0>>,
       <<0,436,143,2,366,465,6,0,0,0>>, <<0,438,479,402,279,175,196,0,0,0>>,
       <<0,441,282,47,511,39,126,0,0,0>>, <<0,444,61,406,283,242,386,0,0,0>>,
       <<0,446,330,386,434,270,262,0,0,0>>, <<0,449,64,434,350,159,238,0,0,0>>,
       <<0,451,287,485,16,186,118,0,0,0>>, <<0,453,487,474,21,11,398,0,0,0>>,
       <<0,456,152,339,22,355,112,0,0,0>>, <<0,458,306,18,289,28,294,0,0,0>>,
       <<0,460,435,476,164,108,188,0,0,0>>, <<0,463,30,117,119,395,410,0,0,0>>,
       <<0,465,112,419,221,453,266,0,0,0>>, <<0,467,171,302,134,98,304,0,0,0>>,
       <<0,469,206,222,144,375,390,0,0,0>>, <<0,471,217,125,144,402,344,0,0,0>>,
       <<0,473,203,470,143,327,2,0,0,0>>, <<0,475,166,181,271,155,188,0,0,0>>,
       <<0,477,104,232,269,85,392,0,0,0>>, <<0,479,18,62,4,295,280,0,0,0>>,
       <<0,480,419,133,497,184,358,0,0,0>>, <<0,482,283,401,338,146,168,0,0,0>>,
       <<0,484,123,307,299,232,132,0,0,0>>, <<0,485,450,319,264,321,280,0,0,0>>,
       <<0,487,240,394,255,255,444,0,0,0>>, <<0,489,5,490,433,453,312,0,0,0>>,
       <<0,490,258,56,79,442,298,0,0,0>>, <<0,491,485,75,153,431,126,0,0,0>>,
       <<0,493,174,510,226,286,150,0,0,0>>, <<0,494,351,301,17,12,294,0,0,0>>,
       <<0,495,502,435,418,199,96,0,0,0>>, <<0,497,116,368,427,383,344,0,0,0>>,
       <<0,498,217,67,219,454,106,0,0,0>>, <<0,499,292,12,124,481,380,0,0,0>>,
       <<0,500,341,173,118,5,482,0,0,0>>, <<0,501,365,9,332,358,448,0,0,0>>,
       <<0,502,363,6,38,298,212,0,0,0>>, <<0,503,335,136,202,311,90,0,0,0>>,
       <<0,504,281,375,418,225,4,0,0,0>>, <<0,505,202,188,443,370,494,0,0,0>>,
       <<0,506,97,65,201,150,308,0,0,0>>, <<0,506,477,496,292,152,346,0,0,0>>,
       <<0,507,320,438,461,139,26,0,0,0>>, <<0,508,137,386,109,67,440,0,0,0>>,
       <<0,508,440,321,342,57,418,0,0,0>>, <<0,509,205,229,388,317,330,0,0,0>>,
       <<0,509,456,96,160,16,298,0,0,0>>, <<0,510,168,420,251,215,474,0,0,0>>,
       <<0,510,367,166,406,109,278,0,0,0>>, <<0,511,27,349,28,397,196,0,0,0>>,
       <<0,511,173,446,232,479,456,0,0,0>>, <<0,511,293,451,258,225,174,0,0,0>>,
       <<0,511,387,358,31,166,20,0,0,0>>, <<0,511,455,161,164,123,208,0,0,0>>,
       <<0,511,496,369,420,357,452,0,0,0>>, <<0,511,511,469,227,123,354,0,0,0>>,
       <<0,511,500,459,209,284,208,0,0,0>>, <<0,511,463,340,144,261,174,0,0,0>>,
       <<0,511,400,113,496,66,394,0,0,0>>, <<0,511,310,295,367,253,488,0,0,0>>,
       <<0,511,194,378,60,295,500,0,0,0>>, <<0,511,52,367,52,1,232,0,0,0>>,
       <<0,510,396,269,480,383,14,0,0,0>>, <<0,510,202,95,123,394,400,0,0,0>>,
       <<0,509,493,364,491,290,246,0,0,0>>, <<0,509,247,66,195,338,386,0,0,0>>,
       <<0,508,486,236,68,15,86,0,0,0>>, <<0,508,187,376,88,231,148,0,0,0>>,
       <<0,507,374,501,407,408,364,0,0,0>>, <<0,507,24,117,323,126,62,0,0,0>>,
       <<0,506,159,265,325,219,218,0,0,0>>, <<0,505,268,453,49,262,508,0,0,0>>,
       <<0,504,352,188,322,112,24,0,0,0>>, <<0,503,410,6,88,386,140,0,0,0>>,
       <<0,502,441,440,507,358,346,0,0,0>>, <<0,501,447,493,341,417,394,0,0,0>>,
       <<0,500,428,190,52,399,70,0,0,0>>, <<0,499,383,69,263,442,226,0,0,0>>,
       <<0,498,312,160,222,277,480,0,0,0>>, <<0,497,215,492,359,14,302,0,0,0>>,
       <<0,496,94,73,236,381,420,0,0,0>>, <<0,494,458,471,86,377,8,0,0,0>>,
       <<0,493,286,183,293,510,430,0,0,0>>, <<0,492,88,269,371,386,234,0,0,0>>,
       <<0,490,377,253,495,340,380,0,0,0>>, <<0,489,129,173,477,491,296,0,0,0>>,
       <<0,487,368,68,277,263,168,0,0,0>>, <<0,486,69,489,509,438,304,0,0,0>>,
       <<0,484,258,455,397,56,174,0,0,0>>, <<0,482,423,8,325,444,266,0,0,0>>,
       <<0,481,50,216,309,3,138,0,0,0>>, <<0,479,165,100,495,218,438,0,0,0>>,
       <<0,477,255,220,143,380,192,0,0,0>>, <<0,475,321,110,179,455,240,0,0,0>>,
       <<0,473,362,332,122,349,18,0,0,0>>, <<0,471,379,424,129,153,88,0,0,0>>,
       <<0,469,372,437,480,364,210,0,0,0>>, <<0,467,341,426,43,20,216,0,0,0>>,
       <<0,465,286,442,360,436,140,0,0,0>>, <<0,463,208,31,22,204,222,0,0,0>>,
       <<0,461,105,271,288,402,320,0,0,0>>, <<0,458,491,197,483,41,364,0,0,0>>,
       <<0,456,341,381,35,185,342,0,0,0>>, <<0,454,168,369,15,359,506,0,0,0>>,
       <<0,451,484,223,59,48,202,0,0,0>>, <<0,449,265,5,410,158,156,0,0,0>>,
       <<0,447,22,292,384,358,504,0,0,0>>, <<0,444,269,124,412,484,366,0,0,0>>,
       <<0,441,493,79,501,370,502,0,0,0>>, <<0,439,182,225,230,172,32,0,0,0>>,
       <<0,436,361,117,283,135,482,0,0,0>>, <<0,434,5,337,398,348,496,0,0,0>>,
       <<0,431,139,444,388,450,106,0,0,0>>, <<0,428,251,510,136,339,468,0,0,0>>,
       <<0,425,342,95,103,346,26,0,0,0>>, <<0,422,410,297,302,337,144,0,0,0>>,
       <<0,419,457,168,293,342,214,0,0,0>>, <<0,416,482,296,204,116,368,0,0,0>>,
       <<0,413,486,246,213,215,16,0,0,0>>, <<0,410,469,97,35,476,98,0,0,0>>,
       <<0,407,430,439,454,14,330,0,0,0>>, <<0,404,371,331,241,255,382,0,0,0>>,
       <<0,401,291,365,255,262,364,0,0,0>>, <<0,398,191,112,360,227,338,0,0,0>>,
       <<0,395,70,168,447,326,366,0,0,0>>, <<0,391,441,106,431,59,312,0,0,0>>,
       <<0,388,280,12,243,121,458,0,0,0>>, <<0,385,98,484,342,153,486,0,0,0>>,
       <<0,381,410,75,172,47,72,0,0,0>>, <<0,378,189,409,205,199,90,0,0,0>>,
       <<0,374,462,40,403,207,66,0,0,0>>, <<0,371,203,84,211,94,32,0,0,0>>,
       <<0,367,437,120,88,485,422,0,0,0>>, <<0,364,140,240,483,201,464,0,0,0>>,
       <<0,360,337,28,286,476,494,0,0,0>>, <<0,357,3,89,416,452,440,0,0,0>>,
       <<0,353,163,8,226,325,448,0,0,0>>, <<0,349,304,393,60,372,492,0,0,0>>,
       <<0,345,428,317,225,465,310,0,0,0>>, <<0,342,22,391,474,71,146,0,0,0>>,
       <<0,338,111,203,509,279,12,0,0,0>>, <<0,334,182,365,495,169,34,0,0,0>>,
       <<0,330,236,467,24,327,82,0,0,0>>, <<0,326,274,97,163,191,248,0,0,0>>,
       <<0,322,294,383,372,496,364,0,0,0>>, <<0,318,298,406,41,63,126,0,0,0>>,
       <<0,314,286,269,12,244,82,0,0,0>>, <<0,310,258,78,23,133,410,0,0,0>>,
       <<0,306,213,451,231,458,354,0,0,0>>, <<0,302,153,472,189,278,314,0,0,0>>,
       <<0,298,78,248,370,322,264,0,0,0>>, <<0,293,499,401,119,159,170,0,0,0>>,
       <<0,289,394,15,203,467,466,0,0,0>>, <<0,285,273,225,251,166,330,0,0,0>>,
       <<0,281,138,118,277,178,366,0,0,0>>, <<0,276,500,318,169,9,302,0,0,0>>,
       <<0,272,336,425,190,448,372,0,0,0>>, <<0,268,159,40,467,108,70,0,0,0>>,
       <<0,263,479,302,464,133,374,0,0,0>>, <<0,259,274,302,8,194,50,0,0,0>>,
       <<0,255,56,153,304,82,350,0,0,0>>, <<0,250,336,485,344,277,511,0,0,0>>,
       <<0,246,92,390,488,437,415,0,0,0>>, <<0,241,347,498,408,436,4,0,0,0>>,
       <<0,237,78,415,106,358,13,0,0,0>>, <<0,232,309,258,420,479,287,0,0,0>>,
       <<0,228,16,148,460,204,248,0,0,0>>, <<0,223,223,205,158,58,333,0,0,0>>,
       <<0,218,419,36,265,83,268,0,0,0>>, <<0,214,91,275,296,262,172,0,0,0>>,
       <<0,209,265,20,60,418,352,0,0,0>>, <<0,204,427,416,166,100,166,0,0,0>>,
       <<0,200,68,50,477,495,496,0,0,0>>, <<0,195,210,71,112,193,507,0,0,0>>,
       <<0,190,342,88,502,142,398,0,0,0>>, <<0,185,464,228,270,405,258,0,0,0>>,
       <<0,181,65,102,344,485,238,0,0,0>>, <<0,176,168,348,365,150,89,0,0,0>>,
       <<0,171,263,68,215,242,456,0,0,0>>, <<0,166,348,412,15,409,241,0,0,0>>,
       <<0,161,425,482,116,397,178,0,0,0>>, <<0,156,494,406,68,318,243,0,0,0>>,
       <<0,152,43,311,150,389,28,0,0,0>>, <<0,147,96,325,341,145,471,0,0,0>>,
       <<0,142,142,65,310,212,182,0,0,0>>, <<0,137,180,171,437,469,119,0,0,0>>,
       <<0,132,211,261,270,264,139,0,0,0>>, <<0,127,235,464,51,147,145,0,0,0>>,
       <<0,122,253,397,201,12,113,256,0,0>>,
       <<0,117,265,191,287,301,449,256,0,0>>, <<0,112,270,489,43,132,41,0,0,0>>,
       <<0,107,270,396,382,15,109,256,0,0>>, <<0,102,265,45,320,479,471,256,0,0>>,
       <<0,97,254,79,45,170,419,0,0,0>>, <<0,92,238,116,390,85,38,256,0,0>>,
       <<0,87,217,290,273,121,355,0,0,0>>, <<0,82,192,220,272,232,174,0,0,0>>,
       <<0,77,163,39,59,29,296,256,0,0>>, <<0,72,129,390,438,437,173,256,0,0>>,
       <<0,67,92,384,273,215,252,0,0,0>>, <<0,62,52,153,57,159,138,384,0,0>>,
       <<0,57,8,341,375,125,370,0,0,0>>, <<0,51,474,59,359,151,200,384,0,0>>,
       <<0,46,424,464,242,29,495,256,0,0>>, <<0,41,373,153,325,421,390,256,0,0>>,
       <<0,36,319,284,463,375,448,384,0,0>>, <<0,31,263,480,52,480,454,320,0,0>>,
       <<0,26,206,361,75,380,477,256,0,0>>, <<0,21,148,62,20,385,5,384,0,0>>,
       <<0,16,88,228,436,2,196,320,0,0>>, <<0,11,27,483,362,59,460,384,0,0>>,
       <<0,5,478,448,397,210,57,320,0,0>>, <<0,417,258,131,22,18,232,0,0>>,
       <<1,4,155,465,327,440,312,208,0,0>>, <<1,9,217,52,357,41,416,224,0,0>>,
       <<1,14,277,416,364,91,249,32,0,0>>, <<1,19,337,399,257,183,327,384,0,0>>,
       <<1,24,396,378,476,177,337,128,0,0>>, <<1,29,454,220,463,130,422,128,0,0>>,
       <<1,34,510,303,205,229,125,256,0,0>>, <<1,40,52,492,242,205,165,128,0,0>>,
       <<1,45,105,142,136,288,473,256,0,0>>, <<1,50,155,143,16,108,202,384,0,0>>,
       <<1,55,202,361,70,148,291,0,0,0>>, <<1,60,247,151,43,133,458,0,0,0>>,
       <<1,65,288,403,265,479,497,0,0,0>>, <<1,70,326,473,126,157,130,0,0,0>>,
       <<1,75,361,227,124,182,399,0,0,0>>, <<1,80,392,44,342,451,67,256,0,0>>,
       <<1,85,418,304,454,144,421,0,0,0>>, <<1,90,440,363,239,187,105,256,0,0>>,
       <<1,95,458,88,106,58,52,256,0,0>>, <<1,100,470,371,72,235,137,256,0,0>>,
       <<1,105,478,56,285,21,448,256,0,0>>, <<1,110,480,37,1,487,76,256,0,0>>,
       <<1,115,476,181,159,232,166,256,0,0>>, <<1,120,466,358,306,365,37,0,0,0>>,
       <<1,125,450,438,148,250,278,0,0,0>>, <<1,130,428,290,63,422,108,0,0,0>>,
       <<1,135,399,296,88,364,329,0,0,0>>, <<1,140,363,326,434,383,195,0,0,0>>,
       <<1,145,320,252,471,394,34,0,0,0>>, <<1,150,269,457,270,238,4,0,0,0>>,
       <<1,155,211,300,96,500,156,0,0,0>>, <<1,160,145,164,419,245,376,0,0,0>>,
       <<1,165,70,435,378,376,271,0,0,0>>, <<1,169,499,473,354,323,120,0,0,0>>,
       <<1,174,408,151,436,356,408,0,0,0>>, <<1,179,307,367,430,305,31,0,0,0>>,
       <<1,184,197,483,376,305,414,0,0,0>>, <<1,189,78,374,44,11,328,0,0,0>>,
       <<1,193,461,425,473,342,264,0,0,0>>, <<1,198,323,2,400,105,394,0,0,0>>,
       <<1,203,174,4,354,282,464,0,0,0>>, <<1,208,14,308,110,111,157,0,0,0>>,
       <<1,212,356,278,225,320,28,0,0,0>>, <<1,217,175,305,2,208,11,0,0,0>>,
       <<1,221,495,266,51,339,215,0,0,0>>, <<1,226,292,40,252,104,497,0,0,0>>,
       <<1,231,77,19,268,387,472,0,0,0>>, <<1,235,362,83,70,71,9,0,0,0>>,
       <<1,240,123,111,447,207,353,0,0,0>>, <<1,244,383,498,459,497,298,0,0,0>>,
       <<1,249,120,102,1,353,337,0,0,0>>, <<1,253,355,339,318,465,10,0,0,0>>,
       <<1,258,66,70,432,246,348,0,0,0>>, <<1,262,275,203,215,392,228,0,0,0>>,
       <<1,266,471,109,400,290,66,0,0,0>>, <<1,271,141,187,23,27,130,0,0,0>>,
       <<1,275,309,321,13,330,250,0,0,0>>, <<1,279,463,398,130,438,496,0,0,0>>,
       <<1,284,91,305,503,54,392,0,0,0>>, <<1,288,216,444,98,250,304,0,0,0>>,
       <<1,292,327,189,314,262,66,0,0,0>>, <<1,296,422,455,375,404,484,0,0,0>>,
       <<1,300,503,108,411,363,264,0,0,0>>, <<1,305,56,63,438,20,72,0,0,0>>,
       <<1,309,105,212,362,263,274,0,0,0>>, <<1,313,138,447,502,192,314,0,0,0>>,
       <<1,317,156,151,53,443,240,0,0,0>>, <<1,321,157,240,169,350,462,0,0,0>>,
       <<1,325,142,98,380,208,340,0,0,0>>, <<1,329,110,134,135,435,326,0,0,0>>,
       <<1,333,61,243,346,208,86,0,0,0>>, <<1,336,507,324,316,165,448,0,0,0>>,
       <<1,340,424,275,308,486,490,0,0,0>>, <<1,344,323,508,15,476,254,0,0,0>>,
       <<1,348,205,410,98,179,378,0,0,0>>, <<1,352,69,395,143,435,406,0,0,0>>,
       <<1,355,427,365,207,347,422,0,0,0>>, <<1,359,255,223,305,361,64,0,0,0>>,
       <<1,363,64,385,419,197,86,0,0,0>>, <<1,366,367,244,500,347,10,0,0,0>>,
       <<1,370,139,218,476,468,128,0,0,0>>, <<1,373,404,214,255,316,354,0,0,0>>,
       <<1,377,138,139,241,141,92,0,0,0>>, <<1,380,364,414,316,28,342,0,0,0>>,
       <<1,384,59,437,356,247,438,0,0,0>>, <<1,387,247,119,238,30,348,0,0,0>>,
       <<1,390,414,395,351,423,436,0,0,0>>, <<1,394,50,155,72,457,422,0,0,0>>,
       <<1,397,177,335,324,457,134,0,0,0>>, <<1,400,284,340,0,204,258,0,0,0>>,
       <<1,403,371,84,61,148,86,0,0,0>>, <<1,406,436,508,471,24,124,0,0,0>>,
       <<1,409,481,508,199,9,394,0,0,0>>, <<1,412,506,1,296,312,346,0,0,0>>,
       <<1,415,508,444,317,221,422,0,0,0>>, <<1,418,490,222,369,200,368,0,0,0>>,
       <<1,421,450,282,94,368,486,0,0,0>>, <<1,424,389,34,209,490,460,0,0,0>>,
       <<1,427,305,427,461,447,460,0,0,0>>, <<1,430,200,364,143,169,92,0,0,0>>,
       <<1,433,73,282,145,45,376,0,0,0>>, <<1,435,436,109,399,290,368,0,0,0>>,
       <<1,438,264,287,396,270,226,0,0,0>>, <<1,441,70,234,210,365,198,0,0,0>>,
       <<1,443,365,392,505,217,224,0,0,0>>, <<1,446,126,183,488,18,432,0,0,0>>,
       <<1,448,376,52,473,235,6,0,0,0>>, <<1,451,90,446,351,272,358,0,0,0>>,
       <<1,453,294,277,102,189,298,0,0,0>>, <<1,455,474,505,311,324,478,0,0,0>>,
       <<1,458,120,46,125,387,224,0,0,0>>, <<1,460,253,374,327,47,346,0,0,0>>,
       <<1,462,363,407,265,11,186,0,0,0>>, <<1,464,450,86,418,501,54,0,0,0>>,
       <<1,467,0,379,353,218,218,0,0,0>>, <<1,469,39,206,256,394,74,0,0,0>>,
       <<1,471,54,24,432,102,346,0,0,0>>, <<1,473,44,293,276,248,150,0,0,0>>,
       <<1,475,10,448,330,351,68,0,0,0>>, <<1,476,464,439,234,420,454,0,0,0>>,
       <<1,478,382,216,266,237,468,0,0,0>>, <<1,480,275,243,319,137,382,0,0,0>>,
       <<1,482,143,473,417,226,402,0,0,0>>, <<1,483,499,349,206,77,92,0,0,0>>,
       <<1,485,318,337,489,436,312,0,0,0>>, <<1,487,112,396,162,296,478,0,0,0>>,
       <<1,488,393,482,306,73,310,0,0,0>>, <<1,490,138,44,96,143,368,0,0,0>>,
       <<1,491,369,65,388,374,290,0,0,0>>, <<1,493,62,509,137,130,304,0,0,0>>,
       <<1,494,243,313,491,294,338,0,0,0>>, <<1,495,398,468,191,135,294,0,0,0>>,
       <<1,497,16,426,175,285,336,0,0,0>>, <<1,498,121,155,1,52,196,0,0,0>>,
       <<1,499,200,134,403,327,464,0,0,0>>, <<1,500,253,335,227,320,256,0,0,0>>,
       <<1,501,281,216,11,395,354,0,0,0>>, <<1,502,283,260,454,275,50,0,0,0>>,
       <<1,503,259,443,367,272,466,0,0,0>>, <<1,504,210,227,260,449,422,0,0,0>>,
       <<1,505,135,100,296,244,282,0,0,0>>, <<1,506,34,40,289,118,326,0,0,0>>,
       <<1,506,419,26,220,94,334,0,0,0>>, <<1,507,266,38,237,307,336,0,0,0>>,
       <<1,508,87,58,145,497,466,0,0,0>>, <<1,508,394,68,430,492,370,0,0,0>>,
       <<1,509,163,54,212,141,234,0,0,0>>, <<1,509,418,0,316,239,290,0,0,0>>,
       <<1,510,134,406,205,345,384,0,0,0>>, <<1,510,337,236,26,148,10,0,0,0>>,
       <<1,511,1,503,97,282,412,0,0,0>>, <<1,511,152,174,400,46,478,0,0,0>>,
       <<1,511,276,267,64,194,298,0,0,0>>, <<1,511,374,261,443,67,32,0,0,0>>,
       <<1,511,446,153,503,319,252,0,0,0>>, <<1,511,491,451,411,492,164,0,0,0>>,
       <<1,511,511,128,509,131,344,0,0,0>>, <<1,511,504,208,287,386,268,0,0,0>>,
       <<1,511,471,178,438,450,362,0,0,0>>, <<1,511,412,41,293,113,372,0,0,0>>,
       <<1,511,326,311,380,228,192,0,0,0>>, <<1,511,214,481,381,71,102,0,0,0>>,
       <<1,511,77,45,150,299,400,0,0,0>>, <<1,510,425,33,230,242,440,0,0,0>>,
       <<1,510,234,454,312,275,158,0,0,0>>, <<1,510,18,294,262,62,0,0,0,0>>,
       <<1,509,288,76,117,350,282,0,0,0>>, <<1,509,19,324,90,120,506,0,0,0>>,
       <<1,508,237,28,50,356,210,0,0,0>>, <<1,507,428,227,41,98,284,0,0,0>>,
       <<1,507,81,425,274,148,230,0,0,0>>, <<1,506,221,129,108,76,50,0,0,0>>,
       <<1,505,334,381,93,315,148,0,0,0>>, <<1,504,422,177,437,127,260,0,0,0>>,
       <<1,503,484,52,488,139,50,0,0,0>>, <<1,503,8,29,273,235,328,0,0,0>>,
       <<1,502,18,131,495,493,352,0,0,0>>, <<1,501,2,385,486,29,404,0,0,0>>,
       <<1,499,473,306,247,423,18,0,0,0>>, <<1,498,406,433,457,399,24,0,0,0>>,
       <<1,497,314,285,415,207,294,0,0,0>>, <<1,496,196,405,89,333,354,0,0,0>>,
       <<1,495,53,312,117,174,400,0,0,0>>, <<1,493,397,40,265,267,132,0,0,0>>,
       <<1,492,203,136,453,383,130,0,0,0>>, <<1,490,496,125,240,153,102,0,0,0>>,
       <<1,489,252,43,356,166,272,0,0,0>>, <<1,487,494,442,143,478,282,0,0,0>>,
       <<1,486,200,337,114,107,274,0,0,0>>, <<1,484,393,281,409,82,120,0,0,0>>,
       <<1,483,49,318,287,311,402,0,0,0>>, <<1,481,192,491,171,6,136,0,0,0>>,
       <<1,479,311,333,105,111,448,0,0,0>>, <<1,477,405,402,270,81,4,0,0,0>>,
       <<1,475,475,234,465,241,60,0,0,0>>, <<1,474,8,391,108,34,376,0,0,0>>,
       <<1,472,29,409,277,322,300,0,0,0>>, <<1,470,26,341,130,22,52,0,0,0>>,
       <<1,467,511,238,478,393,96,0,0,0>>, <<1,465,460,156,208,75,360,0,0,0>>,
       <<1,463,385,148,366,334,300,0,0,0>>, <<1,461,286,272,68,32,432,0,0,0>>,
       <<1,459,164,72,72,300,226,0,0,0>>, <<1,457,18,119,223,467,222,0,0,0>>,
       <<1,454,360,473,470,109,158,0,0,0>>, <<1,452,168,172,349,36,430,0,0,0>>,
       <<1,449,464,302,8,182,208,0,0,0>>, <<1,447,225,413,203,15,92,0,0,0>>,
       <<1,444,476,59,243,461,100,0,0,0>>, <<1,442,191,330,42,160,272,0,0,0>>,
       <<1,439,396,268,106,397,326,0,0,0>>, <<1,437,66,454,3,273,112,0,0,0>>,
       <<1,434,226,444,401,37,336,0,0,0>>, <<1,431,364,310,506,298,98,0,0,0>>,
       <<1,428,480,124,110,172,82,0,0,0>>, <<1,426,61,469,94,18,118,0,0,0>>,
       <<1,423,133,395,379,42,50,0,0,0>>, <<1,420,183,490,434,408,322,0,0,0>>,
       <<1,417,212,318,298,300,430,0,0,0>>, <<1,414,219,468,60,21,296,0,0,0>>,
       <<1,411,205,505,368,506,272,0,0,0>>, <<1,408,170,510,383,248,206,0,0,0>>,
       <<1,405,115,51,325,384,402,0,0,0>>, <<1,402,38,233,454,29,252,0,0,0>>,
       <<1,398,453,116,34,280,46,0,0,0>>, <<1,395,335,293,409,5,224,0,0,0>>,
       <<1,392,197,339,382,309,360,0,0,0>>, <<1,389,39,339,315,264,408,0,0,0>>,
       <<1,385,373,380,70,295,416,0,0,0>>, <<1,382,176,37,32,419,184,0,0,0>>,
       <<1,378,470,423,80,503,158,0,0,0>>, <<1,375,234,92,94,499,412,0,0,0>>,
       <<1,371,490,158,463,140,122,0,0,0>>, <<1,368,215,203,30,140,8,0,0,0>>,
       <<1,364,433,317,187,305,358,0,0,0>>, <<1,361,121,83,261,176,174,0,0,0>>,
       <<1,357,302,108,67,151,366,0,0,0>>, <<1,353,464,486,418,35,210,0,0,0>>,
       <<1,350,97,292,46,113,18,0,0,0>>, <<1,346,224,133,207,158,8,0,0,0>>,
       <<1,342,333,109,66,460,422,0,0,0>>, <<1,338,424,318,279,274,196,0,0,0>>,
       <<1,334,498,349,423,331,254,0,0,0>>, <<1,331,43,304,20,218,466,0,0,0>>,
       <<1,327,83,283,64,335,434,0,0,0>>, <<1,323,106,389,459,245,374,0,0,0>>,
       <<1,319,113,216,11,77,22,0,0,0>>, <<1,315,103,378,7,365,432,0,0,0>>,
       <<1,311,77,469,117,339,426,0,0,0>>, <<1,307,36,83,432,276,360,0,0,0>>,
       <<1,302,490,352,437,256,362,0,0,0>>, <<1,298,417,360,29,429,510,0,0,0>>,
       <<1,294,329,214,25,238,298,0,0,0>>, <<1,290,226,24,105,177,384,0,0,0>>,
       <<1,286,107,412,345,464,406,0,0,0>>, <<1,281,486,466,189,199,320,0,0,0>>,
       <<1,277,339,296,486,89,106,0,0,0>>, <<1,273,178,16,417,32,276,0,0,0>>,
       <<1,269,2,251,47,270,78,0,0,0>>, <<1,264,325,89,321,466,328,0,0,0>>,
       <<1,260,122,158,497,310,94,0,0,0>>, <<1,255,418,62,187,93,411,0,0,0>>,
       <<1,251,188,427,376,254,182,0,0,0>>, <<1,246,458,347,346,381,303,0,0,0>>,
       <<1,242,203,451,228,257,413,0,0,0>>, <<1,237,448,344,483,367,472,0,0,0>>,
       <<1,233,169,146,363,344,458,0,0,0>>, <<1,228,389,487,462,470,147,0,0,0>>,
       <<1,224,86,464,153,86,340,0,0,0>>, <<1,219,284,196,137,89,351,0,0,0>>,
       <<1,214,470,316,394,284,377,0,0,0>>, <<1,210,133,435,175,312,6,0,0,0>>,
       <<1,205,298,162,43,44,338,0,0,0>>, <<1,200,452,131,329,483,457,0,0,0>>,
       <<1,196,83,467,109,31,466,0,0,0>>, <<1,191,217,268,258,478,283,0,0,0>>,
       <<1,186,341,171,385,174,151,0,0,0>>, <<1,181,455,301,350,501,252,0,0,0>>,
       <<1,177,48,271,269,44,384,0,0,0>>, <<1,172,144,206,497,12,150,0,0,0>>,
       <<1,167,231,234,93,429,10,0,0,0>>, <<1,162,309,479,397,413,41,0,0,0>>,
       <<1,157,380,46,411,488,472,0,0,0>>, <<1,152,442,86,381,280,328,0,0,0>>,
       <<1,147,496,215,251,290,176,0,0,0>>, <<1,143,31,49,172,81,192,0,0,0>>,
       <<1,138,70,228,492,35,167,0,0,0>>, <<1,133,102,371,216,26,379,0,0,0>>,
       <<1,128,128,94,70,135,501,0,0,0>>, <<1,123,147,38,447,328,382,0,0,0>>,
       <<1,118,159,335,377,126,85,0,0,0>>, <<1,113,166,91,77,314,172,256,0,0>>,
       <<1,108,166,459,438,37,123,0,0,0>>, <<1,103,162,36,452,25,359,0,0,0>>,
       <<1,98,151,489,282,186,130,0,0,0>>, <<1,93,136,413,230,254,445,256,0,0>>,
       <<1,88,116,452,217,443,207,256,0,0>>, <<1,83,92,226,291,31,241,0,0,0>>,
       <<1,78,63,380,103,47,303,256,0,0>>, <<1,73,31,21,442,312,316,256,0,0>>,
       <<1,67,506,308,155,61,109,0,0,0>>, <<1,62,466,348,232,94,91,384,0,0>>,
       <<1,57,423,275,220,317,230,384,0,0>>, <<1,52,377,222,263,348,364,384,0,0>>,
       <<1,47,328,323,70,119,267,256,0,0>>, <<1,42,277,198,443,473,327,128,0,0>>,
       <<1,37,223,495,204,177,214,0,0,0>>, <<1,32,168,322,276,95,124,128,0,0>>,
       <<1,27,111,326,98,193,433,320,0,0>>, <<1,22,53,128,177,128,129,128,0,0>>,
       <<1,16,505,375,31,337,87,256,0,0>>, <<1,11,445,176,234,64,434,192,0,0>>,
       <<1,6,384,178,355,501,120,400,0,0>>, <<1,1,323,3,496,240,507,156,0,0>>,
       <<0,3,250,213,260,42,92,24,0,0>>, <<0,8,311,339,267,89,487,448,0,0>>,
       <<0,13,372,239,442,505,318,384,0,0>>, <<0,18,432,292,181,128,143,384,0,0>>,
       <<0,23,491,362,430,62,112,128,0,0>>, <<0,29,37,317,115,25,358,320,0,0>>,
       <<0,34,94,21,241,330,62,0,0,0>>, <<0,39,148,365,318,273,367,0,0,0>>,
       <<0,44,201,191,412,117,41,0,0,0>>, <<0,49,251,390,129,496,330,128,0,0>>,
       <<0,54,299,315,162,299,79,128,0,0>>, <<0,59,344,345,243,165,139,0,0,0>>,
       <<0,64,386,347,178,357,303,256,0,0>>, <<0,69,425,187,367,161,119,0,0,0>>,
       <<0,74,460,245,270,351,505,256,0,0>>, <<0,79,491,387,468,28,124,0,0,0>>,
       <<0,85,6,482,103,93,455,0,0,0>>, <<0,90,29,395,475,80,209,256,0,0>>,
       <<0,95,47,508,437,83,77,256,0,0>>, <<0,100,61,176,499,131,488,256,0,0>>,
       <<0,105,69,292,275,67,202,256,0,0>>, <<0,110,72,212,24,434,414,0,0,0>>,
       <<0,115,69,316,149,299,63,0,0,0>>, <<0,120,60,474,174,172,319,0,0,0>>,
       <<0,125,46,43,290,327,72,0,0,0>>, <<0,130,24,429,339,122,96,0,0,0>>,
       <<0,134,508,478,328,397,71,0,0,0>>, <<0,139,474,60,442,222,255,0,0,0>>,
       <<0,144,432,71,20,298,227,0,0,0>>, <<0,149,382,380,127,199,450,0,0,0>>,
       <<0,154,325,347,485,220,98,0,0,0>>, <<0,159,260,357,506,132,387,0,0,0>>,
       <<0,164,187,282,320,502,162,0,0,0>>, <<0,169,105,506,274,401,295,0,0,0>>,
       <<0,174,15,390,421,237,59,0,0,0>>, <<0,178,428,321,17,467,365,0,0,0>>,
       <<0,183,320,171,90,311,122,0,0,0>>, <<0,188,202,327,370,23,196,0,0,0>>,
       <<0,193,75,153,321,92,209,0,0,0>>, <<0,197,450,36,173,420,507,0,0,0>>,
       <<0,202,302,363,417,7,140,0,0,0>>, <<0,207,144,500,269,196,252,0,0,0>>,
       <<0,211,488,323,245,239,147,0,0,0>>, <<0,216,309,222,114,3,407,0,0,0>>,
       <<0,221,119,74,440,113,347,0,0,0>>, <<0,225,429,272,32,23,214,0,0,0>>,
       <<0,230,216,181,42,175,6,0,0,0>>, <<0,234,503,193,391,43,85,0,0,0>>,
       <<0,239,266,190,283,261,68,0,0,0>>, <<0,244,17,52,264,122,356,0,0,0>>,
       <<0,248,267,173,175,187,452,0,0,0>>, <<0,252,504,435,186,264,251,0,0,0>>,
       <<0,257,217,209,288,444,284,0,0,0>>, <<0,261,428,403,301,75,472,0,0,0>>,
       <<0,266,114,389,387,300,136,0,0,0>>, <<0,270,299,53,39,429,354,0,0,0>>,
       <<0,274,469,303,130,449,30,0,0,0>>, <<0,279,114,2,360,428,100,0,0,0>>,
       <<0,283,256,62,286,427,178,0,0,0>>, <<0,287,383,370,352,383,506,0,0,0>>,
       <<0,291,496,303,358,492,108,0,0,0>>, <<0,296,82,262,492,26,382,0,0,0>>,
       <<0,300,165,138,306,243,60,0,0,0>>, <<0,304,232,333,266,89,466,0,0,0>>,
       <<0,308,284,227,214,92,264,0,0,0>>, <<0,312,320,224,402,72,164,0,0,0>>,
       <<0,316,340,218,471,428,446,0,0,0>>, <<0,320,344,103,484,329,30,0,0,0>>,
       <<0,324,331,286,414,482,300,0,0,0>>, <<0,328,302,151,155,263,416,0,0,0>>,
       <<0,332,256,106,34,443,216,0,0,0>>, <<0,336,193,48,310,266,16,0,0,0>>,
       <<0,340,112,389,150,136,490,0,0,0>>, <<0,344,15,3,197,190,142,0,0,0>>,
       <<0,347,411,327,15,369,386,0,0,0>>, <<0,351,278,237,142,486,150,0,0,0>>,
       <<0,355,127,148,47,251,488,0,0,0>>, <<0,358,469,474,181,313,440,0,0,0>>,
       <<0,362,282,95,450,192,36,0,0,0>>, <<0,366,75,453,216,288,476,0,0,0>>,
       <<0,369,362,428,353,289,482,0,0,0>>, <<0,373,118,440,178,99,268,0,0,0>>,
       <<0,376,367,396,15,239,384,0,0,0>>, <<0,380,85,204,179,175,276,0,0,0>>,
       <<0,383,295,286,465,198,202,0,0,0>>, <<0,386,486,42,155,212,48,0,0,0>>,
       <<0,390,144,406,70,28,162,0,0,0>>, <<0,393,295,267,13,147,436,0,0,0>>,
       <<0,396,426,50,312,467,188,0,0,0>>, <<0,400,24,183,288,495,98,0,0,0>>,
       <<0,403,114,69,306,52,82,0,0,0>>, <<0,406,183,137,241,457,30,0,0,0>>,
       <<0,409,231,305,3,52,416,0,0,0>>, <<0,412,258,491,41,456,362,0,0,0>>,
       <<0,415,265,103,335,494,446,0,0,0>>, <<0,418,250,87,392,348,238,0,0,0>>,
       <<0,421,213,365,277,39,370,0,0,0>>, <<0,424,155,348,103,449,128,0,0,0>>,
       <<0,427,75,472,41,208,344,0,0,0>>, <<0,429,486,150,315,244,152,0,0,0>>,
       <<0,432,362,334,189,99,288,0,0,0>>, <<0,435,216,439,14,372,138,0,0,0>>,
       <<0,438,48,393,213,2,74,0,0,0>>, <<0,440,370,127,253,184,368,0,0,0>>,
       <<0,443,157,84,193,63,116,0,0,0>>, <<0,445,433,196,169,70,276,0,0,0>>,
       <<0,448,174,396,401,120,334,0,0,0>>, <<0,450,405,108,171,329,424,0,0,0>>,
       <<0,453,100,290,388,170,502,0,0,0>>, <<0,455,284,369,4,157,216,0,0,0>>,
       <<0,457,445,281,116,423,234,0,0,0>>, <<0,460,70,478,386,297,492,0,0,0>>,
       <<0,462,184,390,64,406,274,0,0,0>>, <<0,464,274,469,44,134,180,0,0,0>>,
       <<0,466,341,146,302,177,126,0,0,0>>, <<0,468,383,390,415,453,46,0,0,0>>,
       <<0,470,402,123,76,29,112,0,0,0>>, <<0,472,396,314,115,89,436,0,0,0>>,
       <<0,474,366,399,461,215,116,0,0,0>>, <<0,476,312,329,141,260,226,0,0,0>>,
       <<0,478,234,52,355,153,366,0,0,0>>, <<0,480,131,33,382,174,96,0,0,0>>,
       <<0,482,3,225,144,172,410,0,0,0>>, <<0,483,363,69,207,296,206,0,0,0>>,
       <<0,485,186,33,249,142,428,0,0,0>>, <<0,486,496,74,83,442,422,0,0,0>>,
       <<0,488,269,149,177,100,388,0,0,0>>, <<0,490,17,218,112,370,12,0,0,0>>,
       <<0,491,252,241,129,290,458,0,0,0>>, <<0,492,462,180,100,286,428,0,0,0>>,
       <<0,494,134,510,46,95,98,0,0,0>>, <<0,495,294,171,136,248,26,0,0,0>>,
       <<0,496,428,153,180,447,124,0,0,0>>, <<0,498,24,423,141,465,182,0,0,0>>,
       <<0,499,107,437,136,500,400,0,0,0>>, <<0,500,165,164,439,474,256,0,0,0>>,
       <<0,501,197,88,458,316,376,0,0,0>>, <<0,502,203,181,272,219,124,0,0,0>>,
       <<0,503,183,416,121,341,136,0,0,0>>, <<0,504,138,255,408,481,2,0,0,0>>,
       <<0,505,67,188,164,224,292,0,0,0>>, <<0,505,482,191,119,84,176,0,0,0>>,
       <<0,506,359,243,146,42,364,0,0,0>>, <<0,507,210,324,285,109,24,0,0,0>>,
       <<0,508,35,416,232,329,490,0,0,0>>, <<0,508,346,501,365,252,346,0,0,0>>,
       <<0,509,120,52,206,401,332,0,0,0>>, <<0,509,379,77,474,136,68,0,0,0>>,
       <<0,510,100,53,9,80,458,0,0,0>>, <<0,510,306,477,384,425,454,0,0,0>>,
       <<0,510,487,317,275,214,462,0,0,0>>, <<0,511,130,75,64,183,94,0,0,0>>,
       <<0,511,258,254,308,439,468,0,0,0>>, <<0,511,360,337,204,163,330,0,0,0>>,
       <<0,511,436,318,144,334,270,0,0,0>>, <<0,511,486,193,186,287,234,0,0,0>>,
       <<0,511,509,472,49,374,6,0,0,0>>, <<0,511,507,129,140,493,120,0,0,0>>,
       <<0,511,478,189,18,123,128,0,0,0>>, <<0,511,423,140,438,365,332,0,0,0>>,
       <<0,511,341,499,286,322,386,0,0,0>>, <<0,511,234,245,157,95,338,0,0,0>>,
       <<0,511,100,407,308,163,60,0,0,0>>, <<0,510,452,481,148,213,134,0,0,0>>,
       <<0,510,266,474,283,500,90,0,0,0>>, <<0,510,54,396,471,93,184,0,0,0>>,
       <<0,509,328,259,127,212,30,0,0,0>>, <<0,509,64,73,378,356,266,0,0,0>>,
       <<0,508,285,365,475,36,106,0,0,0>>, <<0,507,481,126,349,462,502,0,0,0>>,
       <<0,507,138,396,107,65,154,0,0,0>>, <<0,506,282,168,20,207,246,0,0,0>>,
       <<0,505,399,485,20,122,8,0,0,0>>, <<0,504,491,343,204,511,52,0,0,0>>,
       <<0,504,45,276,327,457,148,0,0,0>>, <<0,503,85,307,307,443,216,0,0,0>>,
       <<0,502,99,460,228,217,430,0,0,0>>, <<0,501,88,248,336,209,12,0,0,0>>,
       <<0,500,51,211,16,345,264,0,0,0>>, <<0,498,500,375,350,377,240,0,0,0>>,
       <<0,497,412,260,19,163,364,0,0,0>>, <<0,496,298,406,420,436,206,0,0,0>>,
       <<0,495,159,336,37,459,244,0,0,0>>, <<0,493,507,81,67,260,416,0,0,0>>,
       <<0,492,317,188,323,270,152,0,0,0>>, <<0,491,102,182,258,411,474,0,0,0>>,
       <<0,489,374,99,499,185,406,0,0,0>>, <<0,488,108,491,282,252,204,0,0,0>>,
       <<0,486,330,373,14,399,52,0,0,0>>, <<0,485,15,297,246,32,498,0,0,0>>,
       <<0,483,187,307,131,176,26,0,0,0>>, <<0,481,334,445,500,307,102,0,0,0>>,
       <<0,479,457,246,272,290,304,0,0,0>>, <<0,478,43,267,36,223,44,0,0,0>>,
       <<0,476,117,43,1,248,150,0,0,0>>, <<0,474,166,134,506,337,454,0,0,0>>,
       <<0,472,191,80,482,39,478,0,0,0>>, <<0,470,191,444,6,242,284,0,0,0>>,
       <<0,468,168,252,304,296,488,0,0,0>>, <<0,466,121,72,160,228,4,0,0,0>>,
       <<0,464,49,470,10,352,270,0,0,0>>, <<0,461,466,477,405,353,158,0,0,0>>,
       <<0,459,348,152,470,369,152,0,0,0>>, <<0,457,206,65,463,5,280,0,0,0>>,
       <<0,455,40,276,232,383,386,0,0,0>>, <<0,452,363,333,244,17,28,0,0,0>>,
       <<0,450,151,299,35,381,204,0,0,0>>, <<0,447,428,236,266,191,340,0,0,0>>,
       <<0,445,170,210,150,398,346,0,0,0>>, <<0,442,401,286,16,451,120,0,0,0>>,
       <<0,440,98,18,278,159,266,0,0,0>>, <<0,437,283,499,406,503,306,0,0,0>>,
       <<0,434,447,262,465,315,416,0,0,0>>, <<0,432,76,402,80,100,382,0,0,0>>,
       <<0,429,195,476,484,193,88,0,0,0>>, <<0,426,293,47,419,422,60,0,0,0>>,
       <<0,423,368,212,228,257,116,0,0,0>>, <<0,420,422,21,312,461,288,0,0,0>>,
       <<0,417,454,63,108,107,162,0,0,0>>, <<0,414,464,414,126,218,8,0,0,0>>,
       <<0,411,454,128,416,214,82,0,0,0>>, <<0,408,422,310,47,473,504,0,0,0>>,
       <<0,405,370,14,179,257,388,0,0,0>>, <<0,402,296,346,470,211,370,0,0,0>>,
       <<0,399,202,366,100,236,10,0,0,0>>, <<0,396,88,155,325,396,332,0,0,0>>,
       <<0,392,465,311,378,273,414,0,0,0>>, <<0,389,310,408,22,330,464,0,0,0>>,
       <<0,386,136,19,61,184,12,0,0,0>>, <<0,382,453,256,284,428,368,0,0,0>>,
       <<0,379,239,184,489,343,464,0,0,0>>, <<0,376,5,405,474,177,90,0,0,0>>,
       <<0,372,264,498,34,331,446,0,0,0>>, <<0,368,505,40,495,16,14,0,0,0>>,
       <<0,365,214,151,95,473,236,0,0,0>>, <<0,361,416,410,132,509,248,0,0,0>>,
       <<0,358,88,400,344,182,408,0,0,0>>, <<0,354,254,217,441,376,378,0,0,0>>,
       <<0,350,401,470,105,297,218,0,0,0>>, <<0,347,19,231,4,67,182,0,0,0>>,
       <<0,343,131,110,252,222,314,0,0,0>>, <<0,339,225,207,407,162,6,0,0,0>>,
       <<0,335,302,110,486,156,150,0,0,0>>, <<0,331,361,432,450,262,14,0,0,0>>,
       <<0,327,404,251,199,235,338,0,0,0>>, <<0,323,430,181,77,449,12,0,0,0>>,
       <<0,319,439,325,358,221,400,0,0,0>>, <<0,315,432,277,212,227,210,0,0,0>>,
       <<0,311,409,141,264,268,470,0,0,0>>, <<0,307,370,24,27,104,310,0,0,0>>,
       <<0,303,315,31,455,252,44,0,0,0>>, <<0,299,244,272,357,210,442,0,0,0>>,
       <<0,295,158,342,484,248,0,0,0,0>>, <<0,291,57,351,454,90,216,0,0,0>>,
       <<0,286,453,409,280,157,72,0,0,0>>, <<0,282,323,114,367,210,478,0,0,0>>,
       <<0,278,178,90,481,38,40,0,0,0>>, <<0,274,18,450,254,108,186,0,0,0>>,
       <<0,269,357,282,205,167,350,0,0,0>>, <<0,265,170,212,196,371,226,0,0,0>>,
       <<0,260,481,354,452,351,212,0,0,0>>, <<0,256,267,313,17,311,256,0,0,0>>,
       <<0,252,40,202,334,57,430,0,0,0>>, <<0,247,312,140,117,58,340,0,0,0>>,
       <<0,243,59,242,467,438,319,0,0,0>>, <<0,238,306,116,259,467,390,0,0,0>>,
       <<0,234,28,391,229,81,255,0,0,0>>, <<0,229,251,162,407,359,422,0,0,0>>,
       <<0,224,462,62,117,406,207,0,0,0>>, <<0,220,149,210,13,355,11,0,0,0>>,
       <<0,215,337,215,27,264,417,0,0,0>>, <<0,211,2,198,387,23,401,0,0,0>>,
       <<0,206,168,283,73,261,107,0,0,0>>, <<0,201,324,78,399,173,134,0,0,0>>,
       <<0,196,469,220,393,454,48,0,0,0>>, <<0,192,92,320,381,68,394,0,0,0>>,
       <<0,187,217,502,437,180,142,0,0,0>>, <<0,182,333,379,384,383,149,0,0,0>>,
       <<0,177,440,76,297,44,81,0,0,0>>, <<0,173,25,230,493,140,296,0,0,0>>,
       <<0,168,113,456,506,480,231,0,0,0>>, <<0,163,193,369,103,492,279,0,0,0>>,
       <<0,158,265,94,300,5,146,0,0,0>>, <<0,153,328,272,282,13,505,0,0,0>>,
       <<0,148,384,6,473,364,400,0,0,0>>, <<0,143,431,449,480,499,498,0,0,0>>,
       <<0,138,472,194,109,192,112,0,0,0>>, <<0,133,505,392,381,269,51,0,0,0>>,
       <<0,129,20,150,458,255,257,0,0,0>>, <<0,124,40,110,193,102,260,256,0,0>>,
       <<0,119,53,401,123,371,45,0,0,0>>, <<0,114,61,129,442,358,468,256,0,0>>,
       <<0,109,62,450,478,314,310,256,0,0>>, <<0,104,58,471,225,60,35,0,0,0>>,
       <<0,99,49,322,334,164,207,0,0,0>>, <<0,94,35,136,62,38,471,256,0,0>>,
       <<0,89,16,43,333,120,351,256,0,0>>, <<0,83,504,177,150,465,170,256,0,0>>,
       <<0,78,476,157,173,357,202,0,0,0>>, <<0,73,444,116,148,474,273,256,0,0>>,
       <<0,68,408,186,441,437,506,256,0,0>>, <<0,63,368,501,492,453,276,0,0,0>>,
       <<0,58,326,170,346,387,360,0,0,0>>, <<0,53,280,350,133,374,304,128,0,0>>,
       <<0,48,232,150,62,395,3,256,0,0>>, <<0,43,181,215,414,363,89,256,0,0>>,
       <<0,38,128,168,511,209,462,256,0,0>>, <<0,33,73,143,244,474,192,384,0,0>>,
       <<0,28,16,273,70,332,503,0,0,0>>, <<0,22,470,179,488,233,230,192,0,0>>,
       <<0,17,410,509,499,431,9,384,0,0>>, <<0,12,350,373,161,34,30,64,0,0>>,
       <<0,7,289,416,64,144,378,64,0,0>>, <<0,2,228,260,306,342,81,280,0,0>>,
       <<1,2,344,471,28,227,164,104,0,0>>, <<1,7,406,108,318,224,144,240,0,0>>,
       <<1,12,467,53,456,146,311,288,0,0>>, <<1,18,15,172,345,215,373,64,0,0>>,
       <<1,23,74,330,418,310,5,448,0,0>>, <<1,28,132,394,108,409,459,192,0,0>>,
       <<1,33,189,228,416,17,86,0,0,0>>, <<1,38,244,212,330,132,478,256,0,0>>,
       <<1,43,297,211,422,113,320,384,0,0>>, <<1,48,348,92,290,156,348,128,0,0>>,
       <<1,53,396,233,103,199,303,0,0,0>>, <<1,58,441,500,95,351,495,128,0,0>>,
       <<1,63,484,248,61,300,152,0,0,0>>, <<1,69,11,367,386,244,367,0,0,0>>,
       <<1,74,47,214,5,296,180,256,0,0>>, <<1,79,79,165,506,381,329,256,0,0>>,
       <<1,84,107,90,505,142,121,256,0,0>>, <<1,89,130,368,258,365,372,256,0,0>>,
       <<1,94,149,354,137,314,489,256,0,0>>, <<1,99,163,428,120,171,269,0,0,0>>,
       <<1,104,172,458,311,401,124,0,0,0>>, <<1,109,176,313,438,88,394,0,0,0>>,
       <<1,114,174,374,365,386,37,0,0,0>>, <<1,119,166,510,107,273,39,0,0,0>>,
       <<1,124,153,77,341,503,64,0,0,0>>, <<1,129,132,482,371,372,260,0,0,0>>,
       <<1,134,106,59,178,113,412,0,0,0>>, <<1,139,72,213,428,208,340,0,0,0>>,
       <<1,144,31,304,433,179,404,0,0,0>>, <<1,148,495,203,202,445,193,0,0,0>>,
       <<1,153,439,292,452,68,312,0,0,0>>, <<1,158,375,445,48,128,326,0,0,0>>,
       <<1,163,304,20,112,425,324,0,0,0>>, <<1,168,223,426,444,271,105,0,0,0>>,
       <<1,173,135,2,37,291,468,0,0,0>>, <<1,178,37,155,160,125,274,0,0,0>>,
       <<1,182,442,248,265,201,385,0,0,0>>, <<1,187,326,156,44,439,2,0,0,0>>,
       <<1,192,200,264,459,464,413,0,0,0>>, <<1,197,64,450,163,336,39,0,0,0>>,
       <<1,201,431,76,115,221,509,0,0,0>>, <<1,206,275,43,3,73,478,0,0,0>>,
       <<1,211,108,227,297,305,401,0,0,0>>, <<1,215,442,507,210,412,204,0,0,0>>,
       <<1,220,254,248,262,133,443,0,0,0>>, <<1,225,54,353,237,93,152,0,0,0>>,
       <<1,229,355,189,216,371,272,0,0,0>>, <<1,234,132,148,72,91,112,0,0,0>>,
       <<1,238,409,109,495,56,460,0,0,0>>, <<1,243,161,467,443,259,284,0,0,0>>,
       <<1,247,414,79,219,437,15,0,0,0>>, <<1,252,141,362,453,106,13,0,0,0>>,
       <<1,256,368,177,57,113,196,0,0,0>>, <<1,261,69,429,332,74,200,0,0,0>>,
       <<1,265,269,492,362,401,244,0,0,0>>, <<1,269,456,251,96,219,414,0,0,0>>,
       <<1,274,117,102,348,384,214,0,0,0>>, <<1,278,275,445,249,335,164,0,0,0>>,
       <<1,282,420,142,321,54,36,0,0,0>>, <<1,287,38,105,434,465,220,0,0,0>>,
       <<1,291,153,223,330,235,486,0,0,0>>, <<1,295,253,385,132,233,30,0,0,0>>,
       <<1,299,338,480,356,284,270,0,0,0>>, <<1,303,408,400,379,13,318,0,0,0>>,
       <<1,307,463,36,490,166,244,0,0,0>>, <<1,311,501,305,364,334,192,0,0,0>>,
       <<1,316,12,76,89,239,200,0,0,0>>, <<1,320,18,266,170,486,424,0,0,0>>,
       <<1,324,8,259,3,224,114,0,0,0>>, <<1,327,493,461,434,410,324,0,0,0>>,
       <<1,331,450,259,187,407,494,0,0,0>>, <<1,335,390,60,473,181,428,0,0,0>>,
       <<1,339,312,276,387,432,160,0,0,0>>, <<1,343,217,293,502,141,224,0,0,0>>,
       <<1,347,105,12,307,241,448,0,0,0>>, <<1,350,486,357,267,94,88,0,0,0>>,
       <<1,354,338,206,287,84,236,0,0,0>>, <<1,358,171,486,232,102,126,0,0,0>>,
       <<1,361,499,76,443,42,86,0,0,0>>, <<1,365,295,418,205,281,68,0,0,0>>,
       <<1,369,73,392,315,83,158,0,0,0>> >>

\* an entry of SinTable as a signed double
sin_entry(e) == [neg |-> e[1] = 1, mag |-> Tail(e)]

\* np.sin(self.packet_counter / 100)
sin_hundredths(counter) == sin_entry(SinTable[counter + 1])

\* 0.5 + 0.5 * s for a signed double s of magnitude up to 1
half_plus_half(s) ==
    IF s.neg THEN FloatSub(FloatDiv(1, 2), FloatHalf(s.mag))
    ELSE FloatAdd(FloatDiv(1, 2), FloatHalf(s.mag))

\* sum(end - start + 1 for start, end, _, _ in self.lap_boundaries)
RECURSIVE original_total_samples(_)
original_total_samples(lb) ==
    IF lb = << >> THEN 0
    ELSE (Head(lb)[2] - Head(lb)[1] + 1) + original_total_samples(Tail(lb))

\* scale_factor = total_interpolated_samples / original_total_samples
\* if original_total_samples > 0 else 1, a float
scale_factor(lb, total) ==
    IF original_total_samples(lb) > 0
    THEN FloatDiv(total, original_total_samples(lb))
    ELSE FloatDiv(1, 1)

\* int(start_idx * scale_factor)
scaled_start(b, sf) == FloatToInt(FloatMulInt(b[1], sf))

\* int((end_idx + 1) * scale_factor) - 1
scaled_end(b, sf) == FloatToInt(FloatMulInt(b[2] + 1, sf)) - 1

\* variant: the progress is taken from the index itself, not from its
\* offset into the lap
lap_progress_FromIndex(telemetry_idx, s, e) ==
    IF e - s + 1 > 0 THEN [num |-> telemetry_idx * 100, den |-> e - s + 1]
    ELSE [num |-> 0, den |-> 1]

\* ((telemetry_idx - scaled_start) / lap_length) * 100 if lap_length > 0
\* else 0, as the fraction num / den
lap_progress(telemetry_idx, s, e) ==
    IF e - s + 1 > 0 THEN [num |-> (telemetry_idx - s) * 100, den |-> e - s + 1]
    ELSE [num |-> 0, den |-> 1]

\* the for loop of _get_current_lap_info: the first boundary whose scaled
\* range holds the index (rest counts the rows from it to the end of the
\* table), or found = FALSE
RECURSIVE lap_scan(_, _, _)
lap_scan(lb, telemetry_idx, sf) ==
    IF lb = << >>
    THEN [found |-> FALSE, lap |-> 0, progress |-> [num |-> 0, den |-> 1], rest |-> 0]
    ELSE LET s == scaled_start(Head(lb), sf)
             e == scaled_end(Head(lb), sf)
         IN IF s <= telemetry_idx /\ telemetry_idx <= e
            THEN [found |-> TRUE, lap |-> Head(lb)[3],
                  progress |-> lap_progress(telemetry_idx, s, e), rest |-> Len(lb)]
            ELSE lap_scan(Tail(lb), telemetry_idx, sf)

\* F1DataSource._get_current_lap_info: lap number and lap progress (percent,
\* as a fraction); found tells whether a scaled range held the index, row is
\* the row of the table whose lap number and lap time are returned (0: the
\* lap time is None)
get_current_lap_info(lb, telemetry_idx, total) ==
    IF lb = << >>
    THEN [found |-> FALSE, lap |-> 1, progress |-> [num |-> 0, den |-> 1], row |-> 0]
    ELSE LET hit == lap_scan(lb, telemetry_idx, scale_factor(lb, total))
         IN IF hit.found
            THEN [found |-> TRUE, lap |-> hit.lap, progress |-> hit.progress,
                  row |-> Len(lb) - hit.rest + 1]
            ELSE [found |-> FALSE, lap |-> lb[Len(lb)][3],
                  progress |-> [num |-> 100, den |-> 1], row |-> Len(lb)]

(* ----------------- _interpolate_to_realistic_rate ---------------------- *)
\* df.drop_duplicates(subset=['Time']).sort_values('Time'): the distinct
\* timestamps in increasing order
RECURSIVE SortedTimes(_)
SortedTimes(S) ==
    IF S = {} THEN << >>
    ELSE LET first == CHOOSE x \in S : \A y \in S : x <= y
         IN << first >> \o SortedTimes(S \ {first})

drop_duplicates_sort(times) == SortedTimes({times[i] : i \in 1..Len(times)})

\* (end_time - start_time).total_seconds(), kept in whole ms
duration_ms(times) ==
    LET df == drop_duplicates_sort(times) IN df[Len(df)] - df[1]

\* target_samples = int(duration * target_hz), duration being the float
\* number of seconds
target_samples(dur_ms, target_hz) ==
    FloatToInt(FloatMulInt(target_hz, FloatDiv(dur_ms, 1000)))

\* np.linspace(0, duration, n): n offsets from 0 to duration, both ends
\* included, each as the fraction num / den of a millisecond (the float
\* rounding of an offset is far below a nanosecond and is left out)
linspace(dur_ms, n) ==
    [i \in 1..n |-> IF n = 1 THEN [num |-> 0, den |-> 1]
                    ELSE [num |-> (i - 1) * dur_ms, den |-> n - 1]]

\* F1DataSource._interpolate_to_realistic_rate: the time offsets of the rows
\* of the uniform telemetry; an empty frame is returned as it is
interpolate_to_realistic_rate(times, target_hz) ==
    IF times = << >> THEN << >>
    ELSE linspace(duration_ms(times), target_samples(duration_ms(times), target_hz))

(* ----------------------------- sessions -------------------------------- *)
\* what load_session can leave in car_data and lap_boundaries when it returns
\* True: the regular session of four raw samples in two laps, whose uniform
\* telemetry has NumSamples rows; a session of one raw sample; a session
\* shorter than one packet interval; a session without any sample
RegularSession ==
    [times |-> << 0, PACKET_INTERVAL_MS, 2 * PACKET_INTERVAL_MS,
                  NumSamples * PACKET_INTERVAL_MS >>,
     laps |-> RawLapBoundaries]
\* self.session = None
NoSession == [times |-> << >>, laps |-> << >>]
Sessions ==
    { RegularSession,
      [times |-> << 0 >>, laps |-> << << 0, 0, 1 >> >>],
      [times |-> << 0, 1 >>, laps |-> << << 0, 1, 1 >> >>],
      [times |-> << >>, laps |-> << >>] }

(* ------------------------------- Init ---------------------------------- *)
\* the objects as their constructors leave them, but for the packet counter
FreshObjects ==
    /\ pc = "load"
    /\ exc = "none"
    /\ now = 0
    /\ session = NoSession
    /\ load_result = "none"
    /\ car_data_loaded = FALSE
    /\ lap_boundaries = << >>
    /\ ds_current_lap = 1
    /\ idx = 0
    /\ sock = "none"
    /\ packets_sent = 0
    /\ packets_dropped = 0
    /\ bytes_sent = 0
    /\ latencies_us = << >>
    /\ current_lap = 0
    /\ first_packet = TRUE
    /\ last_packet_time = 0
    /\ packet = NoPacket
    /\ send_start = 0
    /\ send_latency_us = 0
    /\ current_time = 0
    /\ acquired = 0
    /\ closed = 0
    /\ attempts = << >>
    /\ yielded = << >>
    /\ results = << >>
    /\ iter0 = [sent |-> 0, dropped |-> 0, bytes |-> 0, lat |-> << >>]
    /\ cadence_log = << >>
    /\ metrics_log = << >>
    /\ interrupted_at = "none"
    /\ car_data = << >>
    /\ total_interpolated_samples = 0
    /\ latency_log = << >>
    /\ base_timestamp = 0
    /\ yield_log = << >>
    /\ gen_packet = NoPacket

\* F1DataSource.__init__ sets self.packet_counter = 0
StartOfMain == FreshObjects /\ packet_counter = 0

\* the program: main() is about to run
Init == StartOfMain /\ call = NoCall /\ ret = NoRet

(* ------------------------- the wire format ----------------------------- *)
\* a Python float: a sign and the magnitude as a double of the digit library
PyFloat(n, d) ==
    [neg |-> n < 0, mag |-> FloatDiv(IF n < 0 THEN 0 - n ELSE n, d)]

\* a Python int held in a field that can also hold a float
PyInt(n) == [int |-> n]
is_float(x) == "mag" \in DOMAIN x

\* the last FRAC_DIGITS digits of a fixed-point digit string, zero-filled
FracPart(d) ==
    [i \in 1..FRAC_DIGITS |->
        IF Len(d) - FRAC_DIGITS + i >= 1 THEN d[Len(d) - FRAC_DIGITS + i] ELSE 0]

\* round(x, ndigits) of a float x, scale being 10 ** ndigits: the exact value
\* of x is rounded half-to-even to ndigits decimals and the decimal result is
\* read back as the nearest double
py_round(x, scale) ==
    LET prod == MulDigits(x.mag, scale, 0)
        whole == FloatToInt(prod)
        fr == FracPart(prod)
        half == DIGIT_BASE \div 2
        below == AnyNonZero(SubSeq(fr, 2, FRAC_DIGITS))
        up == \/ fr[1] > half
              \/ fr[1] = half /\ (below \/ whole % 2 = 1)
    IN [neg |-> x.neg, mag |-> FloatDiv(IF up THEN whole + 1 ELSE whole, scale)]

\* round(x, ndigits) of a field that holds a float or an int: with
\* ndigits >= 0 an int comes back as it is, an int
py_round_number(x, scale) == IF is_float(x) THEN py_round(x, scale) ELSE x

\* class PacketPriority(IntEnum)
PacketPriority == [CRITICAL |-> 0, HIGH |-> 1, MEDIUM |-> 2, LOW |-> 3]

\* msgpack values: an int (an IntEnum member is packed as its int), a
\* float64, a bool, an array of values
pack_int(v) == [t |-> "int", v |-> v]
pack_float(v) == [t |-> "float64", v |-> v]
pack_bool(v) == [t |-> "bool", v |-> v]
pack_array(vs) == [t |-> "array", v |-> vs]
\* a Python float is packed as float64, a Python int as an int
pack_number(x) == IF is_float(x) THEN pack_float(x) ELSE pack_int(x.int)

\* variant: the throttle is rounded to one decimal
to_udp_bytes_CoarseThrottle(self) ==
    << << "t", pack_int(self.timestamp_ms) >>,
       << "id", pack_int(self.packet_id) >>,
       << "p", pack_int(PacketPriority[self.priority]) >>,
       << "spd", pack_int(self.speed_kmh) >>,
       << "thr", pack_float(py_round(self.throttle_percent, 10)) >>,
       << "brk", pack_float(py_round(self.brake_percent, 100)) >>,
       << "str", pack_float(py_round(self.steering_angle, 1000)) >>,
       << "g", pack_int(self.gear) >>,
       << "rpm", pack_int(self.engine_rpm) >>,
       << "drs", pack_bool(self.drs_active) >>,
       << "oilp", pack_float(py_round(self.oil_pressure_bar, 10)) >>,
       << "oilt", pack_int(self.oil_temp_c) >>,
       << "h2ot", pack_int(self.water_temp_c) >>,
       << "tp", pack_array([i \in 1..Len(self.tyre_pressure_psi) |->
                    pack_float(py_round(self.tyre_pressure_psi[i], 10))]) >>,
       << "tt", pack_array([i \in 1..Len(self.tyre_temp_surface_c) |->
                    pack_int(self.tyre_temp_surface_c[i])]) >>,
       << "ers", pack_float(py_round(self.ers_store_j, 1)) >>,
       << "mguk", pack_number(py_round_number(self.mguk_power_w, 1)) >>,
       << "fuel", pack_float(py_round(self.fuel_flow_rate_kg_h, 100)) >> >>

\* F1TelemetryPacket.to_udp_bytes: the msgpack map of the wire fields, in
\* the order of the dict.  mguk_power_w is the one field that
\* generate_packets fills with a float or with the int 0.
to_udp_bytes(self) ==
    << << "t", pack_int(self.timestamp_ms) >>,
       << "id", pack_int(self.packet_id) >>,
       << "p", pack_int(PacketPriority[self.priority]) >>,
       << "spd", pack_int(self.speed_kmh) >>,
       << "thr", pack_float(py_round(self.throttle_percent, 100)) >>,
       << "brk", pack_float(py_round(self.brake_percent, 100)) >>,
       << "str", pack_float(py_round(self.steering_angle, 1000)) >>,
       << "g", pack_int(self.gear) >>,
       << "rpm", pack_int(self.engine_rpm) >>,
       << "drs", pack_bool(self.drs_active) >>,
       << "oilp", pack_float(py_round(self.oil_pressure_bar, 10)) >>,
       << "oilt", pack_int(self.oil_temp_c) >>,
       << "h2ot", pack_int(self.water_temp_c) >>,
       << "tp", pack_array([i \in 1..Len(self.tyre_pressure_psi) |->
                    pack_float(py_round(self.tyre_pressure_psi[i], 10))]) >>,
       << "tt", pack_array([i \in 1..Len(self.tyre_temp_surface_c) |->
                    pack_int(self.tyre_temp_surface_c[i])]) >>,
       << "ers", pack_float(py_round(self.ers_store_j, 1)) >>,
       << "mguk", pack_number(py_round_number(self.mguk_power_w, 1)) >>,
       << "fuel", pack_float(py_round(self.fuel_flow_rate_kg_h, 100)) >> >>

\* bytes msgpack writes for an int: one for -32..127, then the narrowest of
\* the 8, 16, 32 and 64 bit formats behind a type byte (unsigned below 2^32
\* for v >= 0, signed from -2^31 for v < 0)
int_len(v) ==
    IF v >= 0
    THEN (IF v <= 127 THEN 1 ELSE IF v <= 255 THEN 2 ELSE IF v <= 65535 THEN 3
          ELSE IF v \div 65536 <= 65535 THEN 5 ELSE 9)
    ELSE (IF v >= 0 - 32 THEN 1 ELSE IF v >= 0 - 128 THEN 2
          ELSE IF v >= 0 - 32768 THEN 3
          ELSE IF (0 - v - 1) \div 65536 <= 32767 THEN 5 ELSE 9)

RECURSIVE SumSeq(_)
SumSeq(ns) == IF ns = << >> THEN 0 ELSE Head(ns) + SumSeq(Tail(ns))

\* bytes of the header of an array of n values: one byte up to 15 values,
\* three up to 65535 (array 16), five beyond (array 32)
array_header_len(n) == IF n <= 15 THEN 1 ELSE IF n <= 65535 THEN 3 ELSE 5

\* bytes of a packed value: a float64 takes 9, a bool 1, an array its header
\* and its values
value_len(val) ==
    IF val.t = "int" THEN int_len(val.v)
    ELSE IF val.t = "float64" THEN 9
    ELSE IF val.t = "bool" THEN 1
    ELSE array_header_len(Len(val.v)) + SumSeq([i \in 1..Len(val.v) |->
                        IF val.v[i].t = "int" THEN int_len(val.v[i].v) ELSE 9])

\* characters of the keys of the wire map; a key of up to 31 characters
\* takes one byte more than it has characters
KeyChars == [t |-> 1, id |-> 2, p |-> 1, spd |-> 3, thr |-> 3, brk |-> 3,
             str |-> 3, g |-> 1, rpm |-> 3, drs |-> 3, oilp |-> 4, oilt |-> 4,
             h2ot |-> 4, tp |-> 2, tt |-> 2, ers |-> 3, mguk |-> 4, fuel |-> 4]

\* len(packet_bytes): the map header (one byte up to 15 entries, three
\* beyond) and, for every entry, its key and its value
packed_len(data) ==
    (IF Len(data) <= 15 THEN 1 ELSE 3)
      + SumSeq([i \in 1..Len(data) |->
                   1 + KeyChars[data[i][1]] + value_len(data[i][2])])

\* the payload of a sender that leaves the key out
without_key(data, key) == SelectSeq(data, LAMBDA e : e[1] # key)

\* unpacked[key] and unpacked.get(key, default) of the map msgpack.unpackb
\* returns: arrays come back as lists, the other values as they were packed
unpacked_value(val) ==
    IF val.t = "array" THEN [i \in 1..Len(val.v) |-> val.v[i].v] ELSE val.v
unpacked_has(data, key) == \E i \in 1..Len(data) : data[i][1] = key
unpacked_entry(data, key) == data[CHOOSE i \in 1..Len(data) : data[i][1] = key][2]
unpacked_item(data, key) == unpacked_value(unpacked_entry(data, key))
unpacked_get(data, key, default) ==
    IF unpacked_has(data, key) THEN unpacked_item(data, key) ELSE default
\* an entry that holds an int or a float
unpacked_number(data, key) ==
    IF unpacked_entry(data, key).t = "int" THEN PyInt(unpacked_entry(data, key).v)
    ELSE unpacked_entry(data, key).v

\* F1TelemetryPacket.from_udp_bytes: the fields the wire does not carry keep
\* the defaults of the dataclass
from_udp_bytes(data) ==
    [timestamp_ms |-> unpacked_item(data, "t"),
     car_number |-> 1,
     packet_id |-> unpacked_item(data, "id"),
     priority |-> unpacked_get(data, "p", PacketPriority.HIGH),
     speed_kmh |-> unpacked_item(data, "spd"),
     throttle_percent |-> unpacked_item(data, "thr"),
     brake_percent |-> unpacked_item(data, "brk"),
     steering_angle |-> unpacked_item(data, "str"),
     gear |-> unpacked_item(data, "g"),
     engine_rpm |-> unpacked_item(data, "rpm"),
     drs_active |-> unpacked_item(data, "drs"),
     oil_pressure_bar |-> unpacked_item(data, "oilp"),
     oil_temp_c |-> unpacked_item(data, "oilt"),
     water_temp_c |-> unpacked_item(data, "h2ot"),
     exhaust_temp_c |-> 0,
     tyre_pressure_psi |-> unpacked_item(data, "tp"),
     tyre_temp_surface_c |-> unpacked_item(data, "tt"),
     tyre_temp_core_c |-> << 95, 95, 90, 90 >>,
     ers_store_j |-> unpacked_item(data, "ers"),
     mguk_power_w |-> unpacked_number(data, "mguk"),
     fuel_flow_rate_kg_h |-> unpacked_item(data, "fuel")]

(* ------------------- one pass of generate_packets ---------------------- *)
\* A row of the uniform telemetry is its channels Speed, Throttle, Brake,
\* nGear, RPM and DRS, whole numbers here.  The draws of one pass are the two
\* values of np.random.normal(0, 2), in hundredths of a degree.

\* ers_store = 4000000 * (0.5 + 0.5 * np.sin(self.packet_counter / 100))
ErsStore(counter) ==
    [neg |-> FALSE,
     mag |-> FloatMulInt(4000000, half_plus_half(sin_hundredths(counter)))]

\* speed_factor = speed / 350 if speed > 0 else 0
speed_factor(row) == IF row.Speed > 0 THEN FloatDiv(row.Speed, 350) ELSE << >>

\* the two front and the two rear readings of a list of four
front_rear(front, rear) == << front, front, rear, rear >>

\* tyre_temps: int(80 + speed_factor * 20 + brake_factor * 30) at the front,
\* int(80 + speed_factor * 15) at the rear
tyre_temps(row) ==
    front_rear(FloatToInt(FloatAdd(FloatAdd(FloatOfInt(80),
                                            FloatMulInt(20, speed_factor(row))),
                                   FloatOfInt(30 * row.Brake))),
               FloatToInt(FloatAdd(FloatOfInt(80),
                                   FloatMulInt(15, speed_factor(row)))))

\* the dict _simulate_sensor_data returns when self.packet_counter is
\* counter, throttle being float(throttle_raw) / 100.0 and temps the list
\* tyre_temps
sensor_values(row, counter, draws, throttle, temps) ==
    [oil_pressure |-> [neg |-> FALSE,
                       mag |-> FloatAdd(FloatOfInt(4),
                                        FloatMulInt(2, FloatDiv(row.RPM, 15000)))],
     oil_temp |-> (9000 + 20 * row.Throttle + draws.oil) \div 100,
     water_temp |-> (8500 + 25 * row.Throttle + draws.water) \div 100,
     exhaust_temp |-> (60000 + 300 * row.Throttle) \div 100,
     ers_store |-> ErsStore(counter),
     mguk_power |-> IF row.DRS > 0
                    THEN [neg |-> FALSE, mag |-> FloatMulInt(120000, throttle)]
                    ELSE PyInt(0),
     fuel_flow |-> [neg |-> FALSE, mag |-> FloatMulInt(100, throttle)],
     tyre_temps |-> temps,
     tyre_core_temps |-> [i \in 1..Len(temps) |-> temps[i] + 5]]

\* F1DataSource._simulate_sensor_data.  int() of a positive float truncates;
\* hundredths of a degree are exact for the temperatures of the rows used
\* here, the tyre temperatures and the pressure are computed in doubles.
simulate_sensor_data(row, counter, draws) ==
    sensor_values(row, counter, draws, FloatDiv(row.Throttle, 100), tyre_temps(row))

\* variant: the counter is added to the base without the interval
packet_timestamp_NoInterval(base, counter) == base + counter

\* timestamp_ms = base_timestamp + int(self.packet_counter * PACKET_INTERVAL_MS),
\* PACKET_INTERVAL_MS being the float 1000.0 / BASE_FREQUENCY_HZ
packet_timestamp(base, counter) ==
    base + FloatToInt(FloatMulInt(counter, FloatDiv(1000, BASE_FREQUENCY_HZ)))

\* variant: the DRS test comes before the temperature test
packet_priority_DrsFirst(water_temp, drs) ==
    IF drs > 0 THEN "HIGH"
    ELSE IF water_temp > 120 THEN "CRITICAL" ELSE "HIGH"

\* priority = HIGH; if water_temp > 120: CRITICAL; elif DRS > 0: HIGH
packet_priority(water_temp, drs) ==
    IF water_temp > 120 THEN "CRITICAL"
    ELSE IF drs > 0 THEN "HIGH" ELSE "HIGH"

\* safe_int(value) and safe_float(value) in generate_packets, for a value
\* that is a whole number and not NaN: int(float(value)) and float(value)
\* give the value; their bare except takes whatever is raised inside the
\* try, a KeyboardInterrupt delivered there included, and gives the default
safe_int(value, interrupted) == IF interrupted THEN 0 ELSE value
safe_float(value, interrupted) == IF interrupted THEN 0 ELSE value

\* packet = F1TelemetryPacket(...) in generate_packets, sensor_data being the
\* dict of _simulate_sensor_data for the row and caught the columns whose
\* conversion a KeyboardInterrupt cut short.  The priority and the sensors
\* read the row itself.
make_packet(row, counter, base, sensor_data, caught) ==
    [timestamp_ms |-> packet_timestamp(base, counter),
     car_number |-> 44,
     packet_id |-> counter,
     priority |-> packet_priority(sensor_data.water_temp, row.DRS),
     speed_kmh |-> safe_int(row.Speed, "Speed" \in caught),
     throttle_percent |->
        [neg |-> FALSE,
         mag |-> FloatDiv(safe_float(row.Throttle, "Throttle" \in caught), 100)],
     brake_percent |-> PyFloat(safe_float(row.Brake, "Brake" \in caught), 1),
     steering_angle |-> PyFloat(0, 1),
     gear |-> safe_int(row.nGear, "nGear" \in caught),
     engine_rpm |-> safe_int(row.RPM, "RPM" \in caught),
     drs_active |-> safe_float(row.DRS, "DRS" \in caught) # 0,
     oil_pressure_bar |-> sensor_data.oil_pressure,
     oil_temp_c |-> sensor_data.oil_temp,
     water_temp_c |-> sensor_data.water_temp,
     exhaust_temp_c |-> sensor_data.exhaust_temp,
     tyre_pressure_psi |-> front_rear(PyFloat(23, 1), PyFloat(21, 1)),
     tyre_temp_surface_c |-> sensor_data.tyre_temps,
     tyre_temp_core_c |-> sensor_data.tyre_core_temps,
     ers_store_j |-> sensor_data.ers_store,
     mguk_power_w |-> sensor_data.mguk_power,
     fuel_flow_rate_kg_h |-> sensor_data.fuel_flow]

\* the F1TelemetryPacket that one pass of the loop of generate_packets builds
\* from a row, the packet counter, the base timestamp of the run, the draws
\* of the pass and the conversions cut short by a KeyboardInterrupt
build_packet(row, counter, base, draws, caught) ==
    make_packet(row, counter, base, simulate_sensor_data(row, counter, draws),
                caught)

\* len(packet.to_udp_bytes())
packet_size(p) == packed_len(to_udp_bytes(p))

(* ----------------------- the rows of a stream ------------------------- *)
\* rows of the uniform telemetry of a streamed session: a slow sample at half
\* throttle with DRS closed and a fast one at full throttle with DRS open
SlowRow == [Speed |-> 100, Throttle |-> 50, Brake |-> 0, nGear |-> 3, RPM |-> 100,
            DRS |-> 0]
FastRow == [Speed |-> 300, Throttle |-> 100, Brake |-> 0, nGear |-> 7, RPM |-> 11000,
            DRS |-> 1]
\* row = telemetry.iloc[idx] of the sessions of Sessions: the car is fast at
\* every fourth index, from index 2 on, and slow at the others
telemetry_row(i) == IF i % 4 = 2 THEN FastRow ELSE SlowRow
\* the row of the long session, the same at every index, and the reading of
\* the clock at its start
LongRow == SlowRow
LongBaseTimestamp == 1000
\* both draws of a pass at the mean
NoNoise == [oil |-> 0, water |-> 0]

\* len(packet.to_udp_bytes()) of the packet built from a row
encoded_size(row, counter, base, draws, caught) ==
    packet_size(build_packet(row, counter, base, draws, caught))

(* ------------------- calls of the pure functions ----------------------- *)
\* lap boundary tables as load_session builds them: none, one lap, two laps,
\* contiguous from raw index 0
LapTables ==
    { << >> }
    \cup { << << 0, a - 1, 1 >> >> : a \in 1..MaxLapLen }
    \cup { << << 0, a - 1, 1 >>, << a, a + b - 1, 2 >> >> :
             a \in 1..MaxLapLen, b \in 1..MaxLapLen }

\* two laps of 100 and 120 raw samples, 21 s resampled at BASE_FREQUENCY_HZ
ScenarioLaps == << << 0, 99, 1 >>, << 100, 219, 2 >> >>
ScenarioTotal == target_samples(21000, BASE_FREQUENCY_HZ)
ScenarioIndices == {0, 4771, 4772, 4999, 5000, 10499}

LapInfoCalls ==
    { [fn |-> "lap_info", lb |-> t, total |-> n, idx |-> i] :
         t \in LapTables, n \in 1..MaxTotal, i \in 0..(MaxTotal - 1) }

\* raw 'Time' columns: up to three timestamps in any order, repeats allowed,
\* and one recording of 2.002 s
RawTimeColumns ==
    { << >>, << 0, 2002 >> }
    \cup { << a >> : a \in 0..MaxRawTime }
    \cup { << a, b >> : a \in 0..MaxRawTime, b \in 0..MaxRawTime }
    \cup { << a, b, c >> : a \in {0, 1}, b \in 0..MaxRawTime, c \in 0..MaxRawTime }

\* packets to encode: throttles and pressures on and off a rounding tie,
\* steering to either side, every priority
ThrottleInputs == { << 0, 1 >>, << 1, 8 >>, << 3, 8 >>, << 57345, 100000 >>, << 1, 1 >> }
SteeringInputs == { << 0 - 1, 16 >>, << 12345, 100000 >>, << 0 - 1, 2000 >> }
OilPressureInputs == { << 545, 100 >>, << 21, 4 >> }
ErsInputs == { << 8000001, 2 >>, << 3999999, 4 >> }
WirePackets ==
    { [timestamp_ms |-> 1000 + 2 * k,
       car_number |-> 44,
       packet_id |-> k,
       priority |-> pr,
       speed_kmh |-> 300 + k,
       throttle_percent |-> PyFloat(thr[1], thr[2]),
       brake_percent |-> PyFloat(k, 1),
       steering_angle |-> PyFloat(st[1], st[2]),
       gear |-> 6 + k,
       engine_rpm |-> 11000 + 129 * k,
       drs_active |-> k = 1,
       oil_pressure_bar |-> PyFloat(op[1], op[2]),
       oil_temp_c |-> 104 + k,
       water_temp_c |-> 99 + 30 * k,
       exhaust_temp_c |-> 750,
       tyre_pressure_psi |-> << PyFloat(23, 1), PyFloat(93, 4),
                               PyFloat(21, 1), PyFloat(2115, 100) >>,
       tyre_temp_surface_c |-> << 97 + k, 97, 92, 92 >>,
       tyre_temp_core_c |-> << 102 + k, 102, 97, 97 >>,
       ers_store_j |-> PyFloat(ers[1], ers[2]),
       mguk_power_w |-> IF k = 0 THEN PyInt(0) ELSE PyFloat(1200 * thr[1], thr[2]),
       fuel_flow_rate_kg_h |-> PyFloat(100 * thr[1], thr[2])] :
         k \in {0, 1}, pr \in DOMAIN PacketPriority, thr \in ThrottleInputs,
         st \in SteeringInputs, op \in OilPressureInputs, ers \in ErsInputs }

\* rows to build packets from: three throttles; DRS closed on a slow sample
\* under braking, DRS open on a fast one
PacketRows ==
    { [Speed |-> IF d = 1 THEN 245 ELSE 120, Throttle |-> t, Brake |-> 1 - d,
       nGear |-> 7, RPM |-> IF d = 1 THEN 11000 ELSE 200, DRS |-> d] :
         t \in {0, 50, 100}, d \in {0, 1} }
\* draws of the second of two runs
NoiseCentiSecond == {0, 1000}
\* conversions cut short by a KeyboardInterrupt in a pass: none, those of
\* safe_int, those of safe_float
PacketCaught == {{}, {"Speed", "nGear", "RPM"}, {"Throttle", "Brake", "DRS"}}

\* packets as generate_packets builds them, their ids on both sides of the
\* widths of the id on the wire
GeneratedPackets ==
    { build_packet(r, k, 1000, NoNoise, {}) :
         r \in PacketRows, k \in {0, 127, 128, 255, 256} }

\* a packet whose list of tyre temperatures has 16 entries, the shortest
\* that takes the wider array header: the field is a List[int] of any length
ManyTyresPacket ==
    [build_packet(FastRow, 0, 1000, NoNoise, {})
        EXCEPT !.tyre_temp_surface_c = [i \in 1..16 |-> 90 + i]]

FnCalls ==
    { c \in LapInfoCalls : c.idx < c.total }
    \cup { [fn |-> "roundtrip", packet |-> p, with_priority |-> w] :
             p \in WirePackets, w \in BOOLEAN }
    \cup { [fn |-> "lap_info", lb |-> ScenarioLaps, total |-> ScenarioTotal, idx |-> i] :
             i \in ScenarioIndices }
    \cup { [fn |-> "interpolate", times |-> t] : t \in RawTimeColumns }
    \cup { [fn |-> "packet", row |-> r, counter |-> k, caught |-> c] :
             r \in PacketRows, k \in {0, 1}, c \in PacketCaught }
    \cup { [fn |-> "roundtrip", packet |-> p, with_priority |-> TRUE] :
             p \in GeneratedPackets \cup {ManyTyresPacket} }

\* an F1DataSource on which one function is about to be called; a pass of
\* generate_packets starts with self.packet_counter at the counter of the call
FnInit ==
    /\ FreshObjects
    /\ call \in FnCalls
    /\ ret = NoRet
    /\ packet_counter = IF call.fn = "packet" THEN call.counter ELSE 0

mainVars == << pc, exc, now, dsVars, sockVars, counterVars, current_lap,
               localVars, logVars, interrupted_at >>

\* self._get_current_lap_info(telemetry_idx, total_interpolated_samples)
ApplyLapInfo ==
    /\ call.fn = "lap_info" /\ ret = NoRet
    /\ ret' = [fn |-> "lap_info",
               info |-> get_current_lap_info(call.lb, call.idx, call.total)]
    /\ UNCHANGED << mainVars, call >>

\* self._interpolate_to_realistic_rate(df)
ApplyInterpolate ==
    /\ call.fn = "interpolate" /\ ret = NoRet
    /\ ret' = [fn |-> "interpolate",
               offsets |-> interpolate_to_realistic_rate(call.times, BASE_FREQUENCY_HZ)]
    /\ UNCHANGED << mainVars, call >>

\* the same row is turned into a packet in two runs of generate_packets, at
\* the same value of self.packet_counter and with the same conversions cut
\* short: each run reads its own base timestamp and makes its own draws of
\* np.random.normal, and each advances its counter once the packet is built
ApplyPacket ==
    /\ call.fn = "packet" /\ ret = NoRet
    /\ \E b1 \in BaseTimestamps, b2 \in BaseTimestamps,
          o1 \in NoiseCenti, w1 \in NoiseCenti,
          o2 \in NoiseCentiSecond, w2 \in NoiseCentiSecond :
          ret' = [fn |-> "packet",
                  first |-> build_packet(call.row, packet_counter, b1,
                                         [oil |-> o1, water |-> w1], call.caught),
                  second |-> build_packet(call.row, packet_counter, b2,
                                          [oil |-> o2, water |-> w2], call.caught)]
    /\ packet_counter' = packet_counter + 1
    /\ UNCHANGED << pc, exc, now, session, load_result, car_data_loaded,
                    car_data,
                    lap_boundaries, ds_current_lap, idx,
                    total_interpolated_samples, base_timestamp, gen_packet,
                    sockVars, counterVars, current_lap, localVars, logVars,
                    interrupted_at, call >>

\* what the receiver of a payload has: the payload, len(payload) and
\* F1TelemetryPacket.from_udp_bytes(payload)
received(payload) ==
    [fn |-> "roundtrip",
     payload |-> payload,
     nbytes |-> packed_len(payload),
     decoded |-> from_udp_bytes(payload)]

\* F1TelemetryPacket.from_udp_bytes(payload), the payload being
\* packet.to_udp_bytes() or the same map from a sender without the 'p' key
ApplyRoundTrip ==
    /\ call.fn = "roundtrip" /\ ret = NoRet
    /\ ret' = received(IF call.with_priority
                        THEN to_udp_bytes(call.packet)
                        ELSE without_key(to_udp_bytes(call.packet), "p"))
    /\ UNCHANGED << mainVars, call >>

FnNext ==
    \/ ApplyLapInfo
    \/ ApplyInterpolate
    \/ ApplyPacket
    \/ ApplyRoundTrip

SpecFn == FnInit /\ [][FnNext]_vars

(* ------------------------------ main() --------------------------------- *)
\* positions inside the try statement of load_session
LoadPcs == {"load", "load_laps", "load_fallback", "load_clean"}

\* variant: main() goes on to build the streamer after a failed load
LoadSessionFails_Continues ==
    /\ pc \in LoadPcs
    /\ load_result' = "False"
    /\ pc' = "init_streamer"
    /\ UNCHANGED << exc, now, session, car_data_loaded, car_data,
                    lap_boundaries, packet_counter, ds_current_lap, idx,
                    total_interpolated_samples, base_timestamp, gen_packet,
                    sockVars, counterVars, current_lap, localVars, logVars,
                    interrupted_at, fnVars >>

\* data_source.load_session('R') returns False: there is no lap of the car,
\* or an error was raised anywhere inside the try statement of load_session
\* (while the session or its laps are loaded, or after self.car_data was
\* assigned: while the columns are cleaned or the diagnostics printed) and
\* its handler took it.  What was assigned before stays assigned.  main() is
\* at its print before return.
LoadSessionFails ==
    /\ pc \in LoadPcs
    /\ load_result' = "False"
    /\ pc' = "load_failed"
    /\ UNCHANGED << exc, now, session, car_data_loaded, car_data,
                    lap_boundaries, packet_counter, ds_current_lap, idx,
                    total_interpolated_samples, base_timestamp, gen_packet,
                    sockVars, counterVars, current_lap, localVars, logVars,
                    interrupted_at, fnVars >>

\* main() prints that the load failed and returns
ReturnAfterLoadFailure ==
    /\ pc = "load_failed"
    /\ pc' = "returned"
    /\ UNCHANGED << exc, now, dsVars, sockVars, counterVars, current_lap,
                    localVars, logVars, interrupted_at, fnVars >>

\* load_session, its first lines: fastf1 loads the session and the laps of
\* the car are picked
LoadSessionBegin(s) ==
    /\ pc = "load"
    /\ session' = s
    /\ pc' = "load_laps"
    /\ UNCHANGED << exc, now, load_result, car_data_loaded, car_data,
                    lap_boundaries, packet_counter, ds_current_lap, idx,
                    total_interpolated_samples, base_timestamp, gen_packet,
                    sockVars, counterVars, current_lap, localVars, logVars,
                    interrupted_at, fnVars >>

\* load_session, a pass of its loop over the laps:
\* self.lap_boundaries.append(lap_info)
LoadLap ==
    /\ pc = "load_laps"
    /\ Len(lap_boundaries) < Len(session.laps)
    /\ lap_boundaries' = Append(lap_boundaries,
                                session.laps[Len(lap_boundaries) + 1])
    /\ UNCHANGED << pc, exc, now, session, load_result, car_data_loaded,
                    car_data, packet_counter, ds_current_lap, idx,
                    total_interpolated_samples, base_timestamp, gen_packet,
                    sockVars, counterVars, current_lap, localVars, logVars,
                    interrupted_at, fnVars >>

\* load_session, after the laps: self.car_data is assigned, from the laps
\* that gave telemetry, or from the only lap of the car, for which no lap
\* table is built
LoadTelemetry ==
    /\ pc = "load_laps"
    /\ Len(lap_boundaries) = Len(session.laps)
    /\ car_data_loaded' = TRUE
    /\ car_data' = session.times
    /\ pc' = "load_clean"
    /\ UNCHANGED << exc, now, session, load_result, lap_boundaries,
                    packet_counter, ds_current_lap, idx, total_interpolated_samples,
                    base_timestamp, gen_packet, sockVars, counterVars,
                    current_lap, localVars, logVars, interrupted_at, fnVars >>

\* the lap table of the fallback of load_session: one row spanning the
\* telemetry of the fastest lap
fallback_lap_boundaries(data, lap_number) ==
    << << 0, Len(data) - 1, lap_number >> >>

\* the session is one whose lap table can come from the fallback
FallbackSession(s) ==
    /\ Len(s.laps) = 1
    /\ s.laps = fallback_lap_boundaries(s.times, s.laps[1][3])

\* load_session, the fallback after a loop in which no lap gave telemetry:
\* self.car_data is assigned the telemetry of the fastest lap, the lap table
\* still being empty
LoadFallbackTelemetry ==
    /\ pc = "load_laps"
    /\ lap_boundaries = << >>
    /\ FallbackSession(session)
    /\ car_data_loaded' = TRUE
    /\ car_data' = session.times
    /\ pc' = "load_fallback"
    /\ UNCHANGED << exc, now, session, load_result, lap_boundaries,
                    packet_counter, ds_current_lap, idx, total_interpolated_samples,
                    base_timestamp, gen_packet, sockVars, counterVars,
                    current_lap, localVars, logVars, interrupted_at, fnVars >>

\* load_session, the fallback goes on: self.lap_boundaries is assigned its
\* single row
LoadFallbackLaps ==
    /\ pc = "load_fallback"
    /\ lap_boundaries' = fallback_lap_boundaries(car_data, session.laps[1][3])
    /\ pc' = "load_clean"
    /\ UNCHANGED << exc, now, session, load_result, car_data_loaded,
                    car_data, packet_counter, ds_current_lap, idx,
                    total_interpolated_samples, base_timestamp, gen_packet,
                    sockVars, counterVars, current_lap, localVars, logVars,
                    interrupted_at, fnVars >>

\* load_session cleans the columns, prints its diagnostics and returns True
LoadSessionOk ==
    /\ pc = "load_clean"
    /\ load_result' = "True"
    /\ pc' = "init_streamer"
    /\ UNCHANGED << exc, now, session, car_data_loaded, car_data,
                    lap_boundaries, packet_counter, ds_current_lap, idx,
                    total_interpolated_samples, base_timestamp, gen_packet,
                    sockVars, counterVars, current_lap, localVars, logVars,
                    interrupted_at, fnVars >>

\* UDPTelemetryStreamer.__init__, its first lines: the socket is created
CreateSocket ==
    /\ pc = "init_streamer"
    /\ sock' = "open"
    /\ acquired' = acquired + 1
    /\ pc' = "init_counters"
    /\ UNCHANGED << exc, now, dsVars, closed, counterVars, current_lap,
                    localVars, logVars, interrupted_at, fnVars >>

\* UDPTelemetryStreamer.__init__, the rest: the counters and the latency
\* window are initialised and the constructor returns
InitStreamer ==
    /\ pc = "init_counters"
    /\ packets_sent' = 0
    /\ packets_dropped' = 0
    /\ bytes_sent' = 0
    /\ latencies_us' = << >>
    /\ current_lap' = 0
    /\ pc' = "pre_try"
    /\ UNCHANGED << exc, now, dsVars, sockVars, localVars, logVars,
                    interrupted_at, fnVars >>

\* the two prints of main() after the constructor; the try statement is
\* entered and stream_session called
EnterTry ==
    /\ pc = "pre_try"
    /\ pc' = "stream_start"
    /\ UNCHANGED << exc, now, dsVars, sockVars, counterVars, current_lap,
                    localVars, logVars, interrupted_at, fnVars >>

\* except KeyboardInterrupt: print
ExceptKeyboardInterrupt ==
    /\ pc = "except"
    /\ pc' = "finally"
    /\ UNCHANGED << exc, now, dsVars, sockVars, counterVars, current_lap,
                    localVars, logVars, interrupted_at, fnVars >>

\* finally: streamer.close() closes the socket
Finally ==
    /\ pc = "finally"
    /\ sock' = "closed"
    /\ closed' = closed + 1
    /\ pc' = "after_close"
    /\ UNCHANGED << exc, now, dsVars, acquired, counterVars, current_lap,
                    localVars, logVars, interrupted_at, fnVars >>

\* the prints of close() and the end of the try statement: an exception that
\* was not handled leaves main(), otherwise main() prints and returns
EndMain ==
    /\ pc = "after_close"
    /\ pc' = IF exc \in {"Error", "KeyboardInterruptInHandler"}
             THEN "crashed" ELSE "done"
    /\ UNCHANGED << exc, now, dsVars, sockVars, counterVars, current_lap,
                    localVars, logVars, interrupted_at, fnVars >>

\* Ctrl-C while main() is inside the try block: Python raises
\* KeyboardInterrupt in the main thread between two bytecodes, or out of
\* time.sleep with the clock anywhere between the start of the sleep and the
\* latest time at which the sleep returns; the handler of main() takes it.
\* The KeyboardInterrupt that arrives inside one of the bare except
\* statements of the data source is not of this action: the one of safe_int
\* and safe_float is in GenBuild, the one of the resampler in GeneratorStart.
Interrupt ==
    /\ pc \in StreamPcs
    /\ exc' = "KeyboardInterrupt"
    /\ interrupted_at' = pc
    /\ IF pc = "sleeping"
       THEN \E o \in Oversleeps :
               now' \in now..(last_packet_time + PACKET_INTERVAL_MS + o)
       ELSE now' = now
    /\ pc' = "except"
    /\ UNCHANGED << dsVars, sockVars, counterVars, current_lap, localVars,
                    logVars, fnVars >>

\* Ctrl-C while the handler prints: the finally block runs and the new
\* KeyboardInterrupt leaves main()
InterruptHandler ==
    /\ pc = "except"
    /\ exc' = "KeyboardInterruptInHandler"
    /\ interrupted_at' = pc
    /\ pc' = "finally"
    /\ UNCHANGED << now, dsVars, sockVars, counterVars, current_lap, localVars,
                    logVars, fnVars >>

\* Ctrl-C outside the try statement (load_session, whose handler takes
\* Exception only, the print after a failed load, the constructor, the prints
\* before the try) or inside the finally block: KeyboardInterrupt leaves
\* main() at once
InterruptOutside ==
    /\ pc \in OutsidePcs
    /\ exc' = "KeyboardInterrupt"
    /\ interrupted_at' = pc
    /\ pc' = "crashed"
    /\ UNCHANGED << now, dsVars, sockVars, counterVars, current_lap, localVars,
                    logVars, fnVars >>

(* --------------------------- stream_session ---------------------------- *)
\* the lines before the for loop
StreamStart ==
    /\ pc = "stream_start"
    /\ last_packet_time' = now
    /\ first_packet' = TRUE
    /\ pc' = "gen_start"
    /\ UNCHANGED << exc, now, dsVars, sockVars, counterVars, current_lap,
                    packet, send_start, send_latency_us, current_time, logVars,
                    interrupted_at, fnVars >>

\* the first next() on generate_packets runs its lines before the loop: with
\* no data the generator returns; otherwise the telemetry is resampled and
\* its first and last rows are read for the preview, telemetry['Speed'].iloc[0]
\* raising IndexError when there is no row.  Nothing in stream_session or
\* main() catches that error.  The bare except of the resampler guards the
\* columns that no packet reads: a KeyboardInterrupt taken there leaves such
\* a column out and changes nothing of this step.
GeneratorStart ==
    /\ pc = "gen_start"
    /\ IF ~car_data_loaded
       THEN /\ pc' = "finally"
            /\ UNCHANGED << exc, total_interpolated_samples, base_timestamp >>
       ELSE LET telemetry == interpolate_to_realistic_rate(car_data, BASE_FREQUENCY_HZ)
            IN /\ total_interpolated_samples' = Len(telemetry)
               /\ IF Len(telemetry) = 0
                  THEN /\ exc' = "Error" /\ pc' = "finally"
                       /\ base_timestamp' = base_timestamp
                  ELSE /\ exc' = exc /\ pc' = "generate"
                       /\ base_timestamp' \in StreamBaseTimestamps
    /\ UNCHANGED << now, session, load_result, car_data_loaded,
                    car_data,
                    lap_boundaries, packet_counter, ds_current_lap, idx, gen_packet, sockVars,
                    counterVars, current_lap, localVars, logVars,
                    interrupted_at, fnVars >>

\* generate_packets, top of a pass of its loop: the lap of the row at idx is
\* looked up and stored in self.current_lap
GenLocate ==
    /\ pc = "generate"
    /\ car_data_loaded
    /\ idx < total_interpolated_samples
    /\ ds_current_lap' = get_current_lap_info(lap_boundaries, idx,
                                            total_interpolated_samples).lap
    /\ pc' = "gen_build"
    /\ UNCHANGED << exc, now, session, load_result, car_data_loaded,
                    car_data,
                    lap_boundaries, packet_counter, idx, total_interpolated_samples,
                    base_timestamp, gen_packet, sockVars, counterVars,
                    current_lap, localVars, logVars, interrupted_at, fnVars >>

\* variant: the counter is advanced before the packet is built
GenBuild_PreIncrement(row, delays, draws, caught) ==
    /\ pc = "gen_build"
    /\ gen_packet' = [packet_id |-> packet_counter + 1,
                      timestamp_ms |-> packet_timestamp(base_timestamp,
                                                        packet_counter + 1),
                      nbytes |-> encoded_size(row, packet_counter + 1, base_timestamp,
                                             draws, caught)]
    /\ packet_counter' = packet_counter + 1
    /\ \E d \in delays : now' = now + d
    /\ pc' = "gen_yield"
    /\ UNCHANGED << exc, session, load_result, car_data_loaded,
                    car_data,
                    lap_boundaries, ds_current_lap, idx, total_interpolated_samples,
                    base_timestamp, sockVars, counterVars, current_lap,
                    localVars, logVars, interrupted_at, fnVars >>

\* generate_packets, the rest of the pass up to the yield: the sensors are
\* simulated with the draws of the pass, the packet is built from the row
\* and self.packet_counter is advanced.  A KeyboardInterrupt that arrives
\* inside the try of safe_int or safe_float never reaches main(): the column
\* takes its default and the pass goes on.  The pass takes one of the given
\* numbers of milliseconds.
GenBuild(row, delays, draws, caught) ==
    /\ pc = "gen_build"
    /\ gen_packet' = [packet_id |-> packet_counter,
                      timestamp_ms |-> packet_timestamp(base_timestamp,
                                                        packet_counter),
                      nbytes |-> encoded_size(row, packet_counter, base_timestamp,
                                             draws, caught)]
    /\ packet_counter' = packet_counter + 1
    /\ \E d \in delays : now' = now + d
    /\ pc' = "gen_yield"
    /\ UNCHANGED << exc, session, load_result, car_data_loaded,
                    car_data,
                    lap_boundaries, ds_current_lap, idx, total_interpolated_samples,
                    base_timestamp, sockVars, counterVars, current_lap,
                    localVars, logVars, interrupted_at, fnVars >>

\* yield packet: the for loop of stream_session receives the packet
GenYield ==
    /\ pc = "gen_yield"
    /\ packet' = gen_packet
    /\ idx' = idx + 1
    /\ yielded' = Append(yielded, gen_packet.packet_id)
    /\ yield_log' = Append(yield_log, [packet_id |-> gen_packet.packet_id,
                                       timestamp_ms |-> gen_packet.timestamp_ms,
                                       lap |-> ds_current_lap])
    /\ pc' = "prepare"
    /\ UNCHANGED << exc, now, session, load_result, car_data_loaded,
                    car_data,
                    lap_boundaries, packet_counter, ds_current_lap, total_interpolated_samples,
                    base_timestamp, gen_packet, sockVars, counterVars,
                    current_lap, first_packet, last_packet_time, send_start,
                    send_latency_us, current_time, attempts, results, iter0,
                    cadence_log,
                    metrics_log, latency_log, interrupted_at, fnVars >>

\* range(len(telemetry)) is exhausted: the for loop of stream_session ends
GeneratorExhausted ==
    /\ pc = "generate"
    /\ idx = total_interpolated_samples
    /\ pc' = "finally"
    /\ UNCHANGED << exc, now, dsVars, sockVars, counterVars, current_lap,
                    localVars, logVars, interrupted_at, fnVars >>

\* top of the loop body: the first-packet branch, send_start, to_udp_bytes
PrepareSend ==
    /\ pc = "prepare"
    /\ IF first_packet
       THEN /\ last_packet_time' = now
            /\ first_packet' = FALSE
       ELSE UNCHANGED << last_packet_time, first_packet >>
    /\ send_start' = now
    /\ iter0' = [sent |-> packets_sent, dropped |-> packets_dropped,
                 bytes |-> bytes_sent, lat |-> latencies_us]
    /\ pc' = "sendto"
    /\ UNCHANGED << exc, now, dsVars, sockVars, counterVars, current_lap,
                    packet, send_latency_us, current_time, attempts, yielded,
                    yield_log, results, cadence_log, metrics_log, latency_log,
                    interrupted_at, fnVars >>

\* socket.sendto returns
SendtoOk ==
    /\ pc = "sendto"
    /\ \E d \in SendDurations : now' = now + d
    /\ attempts' = Append(attempts, packet.packet_id)
    /\ results' = Append(results, "ok")
    /\ pc' = "record_latency"
    /\ UNCHANGED << exc, dsVars, sockVars, counterVars, current_lap, localVars,
                    yielded, yield_log, iter0, cadence_log, metrics_log, latency_log,
                    interrupted_at, fnVars >>

\* socket.sendto raises BlockingIOError: the except branch is entered
SendtoBlocked ==
    /\ pc = "sendto"
    /\ attempts' = Append(attempts, packet.packet_id)
    /\ results' = Append(results, "blocked")
    /\ pc' = "count_drop"
    /\ UNCHANGED << exc, now, dsVars, sockVars, counterVars, current_lap,
                    localVars, yielded, yield_log, iter0, cadence_log,
                    metrics_log, latency_log, interrupted_at, fnVars >>

\* except BlockingIOError: self.packets_dropped += 1
CountDrop ==
    /\ pc = "count_drop"
    /\ packets_dropped' = packets_dropped + 1
    /\ pc' = "cadence"
    /\ UNCHANGED << exc, now, dsVars, sockVars, packets_sent, bytes_sent,
                    latencies_us, current_lap, localVars, logVars,
                    interrupted_at, fnVars >>

\* socket.sendto raises another OSError: nothing in stream_session catches it
SendtoError ==
    /\ pc = "sendto"
    /\ attempts' = Append(attempts, packet.packet_id)
    /\ results' = Append(results, "error")
    /\ exc' = "Error"
    /\ pc' = "finally"
    /\ UNCHANGED << now, dsVars, sockVars, counterVars, current_lap, localVars,
                    yielded, yield_log, iter0, cadence_log, metrics_log, latency_log,
                    interrupted_at, fnVars >>

\* the latency is measured and appended to the window
RecordLatency ==
    /\ pc = "record_latency"
    /\ send_latency_us' = (now - send_start) * 1000
    /\ latencies_us' = DequeAppend(latencies_us, send_latency_us')
    /\ latency_log' = Append(latency_log, send_latency_us')
    /\ pc' = "check_budget"
    /\ UNCHANGED << exc, now, dsVars, sockVars, packets_sent, packets_dropped,
                    bytes_sent, current_lap, first_packet, last_packet_time,
                    packet, send_start, current_time, attempts, yielded,
                    yield_log, results, iter0, cadence_log, metrics_log,
                    interrupted_at, fnVars >>

\* variant: a packet over the latency budget is not counted as a drop
CheckBudget_NoDrop ==
    /\ pc = "check_budget"
    /\ pc' = "count_sent"
    /\ UNCHANGED << exc, now, dsVars, sockVars, counterVars, current_lap,
                    localVars, logVars, interrupted_at, fnVars >>

\* if send_latency_us > MAX_LATENCY_MS * 1000: self.packets_dropped += 1
CheckBudget ==
    /\ pc = "check_budget"
    /\ packets_dropped' = IF send_latency_us > MAX_LATENCY_MS * 1000
                          THEN packets_dropped + 1 ELSE packets_dropped
    /\ pc' = "count_sent"
    /\ UNCHANGED << exc, now, dsVars, sockVars, packets_sent, bytes_sent,
                    latencies_us, current_lap, localVars, logVars,
                    interrupted_at, fnVars >>

\* self.packets_sent += 1
CountSent ==
    /\ pc = "count_sent"
    /\ packets_sent' = packets_sent + 1
    /\ pc' = "count_bytes"
    /\ UNCHANGED << exc, now, dsVars, sockVars, packets_dropped, bytes_sent,
                    latencies_us, current_lap, localVars, logVars,
                    interrupted_at, fnVars >>

\* self.bytes_sent += len(packet_bytes)
CountBytes ==
    /\ pc = "count_bytes"
    /\ bytes_sent' = bytes_sent + packet.nbytes
    /\ pc' = "cadence"
    /\ UNCHANGED << exc, now, dsVars, sockVars, packets_sent, packets_dropped,
                    latencies_us, current_lap, localVars, logVars,
                    interrupted_at, fnVars >>

\* if realtime and not first_packet: the clock is read; before the target,
\* time.sleep is called; at or after it, the lag is reported when it exceeds
\* the budget
Cadence ==
    /\ pc = "cadence"
    /\ IF realtime /\ ~first_packet
       THEN /\ current_time' = now
            /\ pc' = IF now < last_packet_time + PACKET_INTERVAL_MS
                     THEN "sleeping" ELSE "stamp"
       ELSE /\ pc' = "end_iteration"
            /\ UNCHANGED current_time
    /\ UNCHANGED << exc, now, dsVars, sockVars, counterVars, current_lap,
                    first_packet, last_packet_time, packet, send_start,
                    send_latency_us, logVars, interrupted_at, fnVars >>

\* time.sleep(target_time - current_time) returns, at the target or o ms
\* after it
SleepReturns(o) ==
    /\ pc = "sleeping"
    /\ now' = last_packet_time + PACKET_INTERVAL_MS + o
    /\ pc' = "stamp"
    /\ UNCHANGED << exc, dsVars, sockVars, counterVars, current_lap, localVars,
                    logVars, interrupted_at, fnVars >>

\* last_packet_time = time.perf_counter(), the last line of the cadence step
StampPacketTime ==
    /\ pc = "stamp"
    /\ last_packet_time' = now
    /\ LET target_time == last_packet_time + PACKET_INTERVAL_MS
       IN cadence_log' = Append(cadence_log,
             [packet_id |-> packet.packet_id, target |-> target_time,
              current |-> current_time,
              lag |-> current_time > target_time + MAX_LATENCY_MS,
              resumed |-> now])
    /\ pc' = "end_iteration"
    /\ UNCHANGED << exc, now, dsVars, sockVars, counterVars, current_lap,
                    first_packet, packet, send_start, send_latency_us,
                    current_time, attempts, yielded, yield_log, results, iter0,
                    metrics_log, latency_log, interrupted_at, fnVars >>

\* variant: the streamer does not take over the lap of the data source
TrackLap_NoLapUpdate ==
    /\ pc = "end_iteration"
    /\ pc' = "metrics"
    /\ UNCHANGED << exc, now, dsVars, sockVars, counterVars, current_lap,
                    localVars, logVars, interrupted_at, fnVars >>

\* self.current_lap = data_source.current_lap
TrackLap ==
    /\ pc = "end_iteration"
    /\ current_lap' = ds_current_lap
    /\ pc' = "metrics"
    /\ UNCHANGED << exc, now, dsVars, sockVars, counterVars, localVars,
                    logVars, interrupted_at, fnVars >>

\* packet_loss_rate = (self.packets_dropped / max(self.packets_sent, 1)) * 100,
\* in percent, as the fraction num / den
packet_loss_rate(dropped, sent) ==
    [num |-> dropped * 100, den |-> IF sent > 1 THEN sent ELSE 1]

\* if self.packets_sent % BASE_FREQUENCY_HZ == 0: self._print_metrics().
\* _print_metrics begins with elapsed = time.time() - self.start_time and
\* pps = self.packets_sent / elapsed: with no wall-clock time elapsed the
\* division raises ZeroDivisionError, which nothing in stream_session or
\* main() catches, before anything is printed.
Metrics(elapsed) ==
    /\ pc = "metrics"
    /\ IF packets_sent % BASE_FREQUENCY_HZ = 0
       THEN IF elapsed = 0
            THEN /\ exc' = "Error"
                 /\ pc' = "finally"
                 /\ metrics_log' = metrics_log
            ELSE /\ metrics_log' =
                      Append(metrics_log,
                             [packet_id |-> packet.packet_id,
                              packets_sent |-> packets_sent,
                              outcome |-> Outcome,
                              loss |-> packet_loss_rate(packets_dropped, packets_sent)])
                 /\ pc' = "generate"
                 /\ exc' = exc
       ELSE /\ metrics_log' = metrics_log
            /\ pc' = "generate"
            /\ exc' = exc
    /\ UNCHANGED << now, dsVars, sockVars, counterVars, current_lap,
                    localVars, attempts, yielded, yield_log, results, iter0,
                    cadence_log, latency_log, interrupted_at, fnVars >>

Next ==
    \/ LoadSessionFails
    \/ ReturnAfterLoadFailure
    \/ \E s \in Sessions : LoadSessionBegin(s)
    \/ LoadLap
    \/ LoadTelemetry
    \/ LoadFallbackTelemetry
    \/ LoadFallbackLaps
    \/ LoadSessionOk
    \/ CreateSocket
    \/ InitStreamer
    \/ EnterTry
    \/ StreamStart
    \/ GeneratorStart
    \/ GenLocate
    \/ \E o \in StreamNoiseCenti, w \in StreamNoiseCenti, c \in CaughtConversions :
          GenBuild(telemetry_row(idx), GenDelays, [oil |-> o, water |-> w], c)
    \/ GenYield
    \/ GeneratorExhausted
    \/ PrepareSend
    \/ SendtoOk
    \/ SendtoBlocked
    \/ CountDrop
    \/ SendtoError
    \/ RecordLatency
    \/ CheckBudget
    \/ CountSent
    \/ CountBytes
    \/ Cadence
    \/ \E o \in Oversleeps : SleepReturns(o)
    \/ StampPacketTime
    \/ TrackLap
    \/ \E e \in WallElapsed : Metrics(e)
    \/ Interrupt
    \/ InterruptHandler
    \/ InterruptOutside
    \/ ExceptKeyboardInterrupt
    \/ Finally
    \/ EndMain

Spec == Init /\ [][Next]_vars

(* ------------------------- the long session --------------------------- *)
\* One long session streamed without interruption, to fill the latency
\* window and go beyond it: a single lap (no lap table) of LongSamples packet
\* intervals, every row being LongRow.  The generator takes no measurable
\* time and draws the mean, the sendto of every third packet takes 11 ms and
\* the others none, time.sleep returns on time, the wall clock runs with
\* the performance counter, and the socket buffer can be full for packet 1
\* and for packet LATENCY_WINDOW_MAXLEN + 1.
LongSession ==
    [times |-> << 0, LongSamples * PACKET_INTERVAL_MS >>, laps |-> << >>]
LongSendDuration(packet_id) == IF packet_id % 3 = 0 THEN 11 ELSE 0
LongBlocked == {1, LATENCY_WINDOW_MAXLEN + 1}

LongNext ==
    \/ LoadSessionBegin(LongSession)
    \/ LoadTelemetry
    \/ LoadSessionOk
    \/ CreateSocket
    \/ InitStreamer
    \/ EnterTry
    \/ StreamStart
    \/ GeneratorStart /\ base_timestamp' = LongBaseTimestamp
    \/ GenLocate
    \/ GenBuild(LongRow, {0}, NoNoise, {})
    \/ GenYield
    \/ GeneratorExhausted
    \/ PrepareSend
    \/ SendtoOk /\ now' = now + LongSendDuration(packet.packet_id)
    \/ SendtoBlocked /\ packet.packet_id \in LongBlocked
    \/ CountDrop
    \/ RecordLatency
    \/ CheckBudget
    \/ CountSent
    \/ CountBytes
    \/ Cadence
    \/ SleepReturns(0)
    \/ StampPacketTime
    \/ TrackLap
    \/ Metrics(now + PACKET_INTERVAL_MS)
    \/ Finally
    \/ EndMain

SpecLong == Init /\ [][LongNext]_vars

TypeOK ==
    /\ pc \in StreamPcs \cup OutsidePcs \cup {"returned", "except", "done",
                                              "crashed"}
    /\ exc \in {"none", "KeyboardInterrupt", "KeyboardInterruptInHandler", "Error"}
    /\ sock \in {"none", "open", "closed"}
    /\ packets_sent \in Nat /\ packets_dropped \in Nat /\ bytes_sent \in Nat
    /\ Len(latencies_us) <= LATENCY_WINDOW_MAXLEN

(* ======================= properties of the run ========================= *)
\* the loop of stream_session ran to exhaustion: no interrupt, no other error
LoopExhausted == pc \in {"finally", "after_close", "done"} /\ exc = "none"

\* positions of an iteration after its sendto, and those of them at which
\* the counters of the packet have been updated
AfterSendPcs == {"count_drop", "record_latency", "check_budget", "count_sent",
                 "count_bytes", "cadence", "sleeping", "stamp", "end_iteration",
                 "metrics"}
CountedPcs == {"cadence", "sleeping", "stamp", "end_iteration", "metrics"}

InOrder(ids) == \A i \in 1..Len(ids) : ids[i] = i - 1

\* the loop of stream_session is over, over a sequence of at least one
\* sample, and neither a KeyboardInterrupt nor an error of the transport
\* other than backpressure has ended it
LoopOver ==
    /\ pc \in {"finally", "after_close", "done", "crashed"}
    /\ exc \notin {"KeyboardInterrupt", "KeyboardInterruptInHandler"}
    /\ Outcome # "error"
    /\ total_interpolated_samples > 0

\* C1: the send attempts are made one per packet in increasing packet_id
\* order, with no packet skipped, duplicated or reordered, whatever mix of
\* backpressure, budget overruns and lag occurs; the loop ends only after
\* the attempt for the last of the K samples, and after the sendto of an
\* iteration every packet pulled so far has been attempted.
C1_AttemptsInOrder ==
    /\ InOrder(attempts)
    /\ Len(attempts) <= NumSamples
    /\ (LoopOver => Len(attempts) = total_interpolated_samples)
    /\ (pc \in AfterSendPcs => attempts = yielded)

\* C2: the first packet yielded by generate_packets has packet_id 0 and
\* every later packet has the previous packet_id plus 1.
C2_PacketIdsSequential ==
    /\ (Len(yielded) > 0 => yielded[1] = 0)
    /\ \A i \in 2..Len(yielded) : yielded[i] = yielded[i - 1] + 1
    /\ (pc \in {"prepare", "sendto"} \cup AfterSendPcs
          => packet.packet_id = yielded[Len(yielded)])

C2_Witness == Len(yielded) = NumSamples /\ packet.packet_id = NumSamples - 1

\* C3: when the sendto of a packet fails with BlockingIOError, packets_dropped
\* has grown by exactly 1 over the iteration, packets_sent, bytes_sent and the
\* latency window are as they were when the iteration began, no error leaves
\* the loop in that iteration, and the packet after a blocked one is still
\* handed to sendto.
C3_BackpressureIsOneDrop ==
    /\ (Outcome = "blocked" /\ pc \in CountedPcs
          => /\ packets_dropped = iter0.dropped + 1
             /\ packets_sent = iter0.sent
             /\ bytes_sent = iter0.bytes
             /\ latencies_us = iter0.lat)
    /\ (Outcome = "blocked" => exc # "Error")
    /\ \A i \in 1..Len(results) :
          results[i] = "blocked" /\ LoopOver /\ attempts[i] < NumSamples - 1
             => /\ Len(attempts) > i
                /\ attempts[i + 1] = attempts[i] + 1
                /\ results[i + 1] \in {"ok", "blocked"}

\* C4: when the sendto of a packet succeeds, the packet is counted as sent
\* (packets_sent + 1, bytes_sent + its size), and packets_dropped grows by
\* exactly 1 if the measured latency exceeds MAX_LATENCY_MS and not at all
\* otherwise.
C4_OverrunIsDropAndSent ==
    Outcome = "ok" /\ pc \in CountedPcs
       => /\ packets_sent = iter0.sent + 1
          /\ bytes_sent = iter0.bytes + packet.nbytes
          /\ send_latency_us = (now - send_start) * 1000
                \/ pc \in {"stamp", "end_iteration", "metrics"}
          /\ packets_dropped = iter0.dropped +
                (IF send_latency_us > MAX_LATENCY_MS * 1000 THEN 1 ELSE 0)

\* a sent packet whose latency was over the budget
C4_Witness ==
    /\ Outcome = "ok" /\ pc = "cadence"
    /\ send_latency_us > MAX_LATENCY_MS * 1000
    /\ packets_dropped = iter0.dropped + 1
    /\ packets_sent = iter0.sent + 1

\* C5: the socket is created at most once; it is closed at most once and only
\* after it was created; when main() has ended, on whatever path (normally,
\* after a KeyboardInterrupt, or with another error raised after the socket
\* was created), a socket that was created has been closed exactly once and
\* is not left open.
C5_SocketReleasedOnce ==
    /\ acquired <= 1
    /\ closed <= acquired
    /\ (sock = "open") = (acquired = 1 /\ closed = 0)
    /\ (sock = "closed") = (acquired = 1 /\ closed = 1)
    /\ (pc \in {"done", "crashed", "returned"} => closed = acquired)
    /\ (pc = "done" => acquired = 1)
    /\ (pc = "returned" => acquired = 0)

\* number of entries of a sequence of sendto results that are "ok"
RECURSIVE CountOk(_)
CountOk(rs) ==
    IF rs = << >> THEN 0
    ELSE (IF Head(rs) = "ok" THEN 1 ELSE 0) + CountOk(Tail(rs))

\* C6: a KeyboardInterrupt takes effect only between packets: for every packet
\* handed to sendto the counter updates of its outcome have all happened (a
\* sent packet is in packets_sent, bytes_sent and the latency window), and
\* after the interrupt the socket is closed.
C6_InterruptBetweenPackets ==
    exc = "KeyboardInterrupt"
       => /\ interrupted_at \notin AfterSendPcs \ CountedPcs
          /\ packets_sent = CountOk(results)
          /\ Len(latencies_us) = CountOk(results)
          /\ (pc = "done" => sock = "closed")

\* C7: the cadence step (sleep until the target, falling-behind check) is not
\* executed in the iteration that sends the first packet.
C7_NoCadenceForFirstPacket ==
    \A i \in 1..Len(cadence_log) : cadence_log[i].packet_id # yielded[1]

\* C8: each target send time is the previous target plus the nominal
\* interval, and the loop does not go on before the target time is reached.
C8_TargetIsPreviousTargetPlusInterval ==
    /\ \A i \in 2..Len(cadence_log) :
          cadence_log[i].target = cadence_log[i - 1].target + PACKET_INTERVAL_MS
    /\ \A i \in 1..Len(cadence_log) :
          cadence_log[i].resumed >= cadence_log[i].target

\* C9: the falling-behind condition is reported whenever the drift of the
\* actual send time from the schedule (first target plus one nominal interval
\* per packet) exceeds the latency budget.
C9_LagOnCumulativeDrift ==
    \A i \in 1..Len(cadence_log) :
       cadence_log[i].current
           - (cadence_log[1].target + (i - 1) * PACKET_INTERVAL_MS) > MAX_LATENCY_MS
          => cadence_log[i].lag

\* C10: a metrics snapshot is emitted exactly in the iterations that complete
\* the N-th, 2N-th, ... sent packet (N = BASE_FREQUENCY_HZ): never while no
\* packet has been sent, never in an iteration whose send was blocked, and
\* never twice for the same packet count.
C10_MetricsOncePerNPackets ==
    /\ \A i \in 1..Len(metrics_log) :
          /\ metrics_log[i].packets_sent > 0
          /\ metrics_log[i].packets_sent % BASE_FREQUENCY_HZ = 0
          /\ metrics_log[i].outcome = "ok"
    /\ \A i, j \in 1..Len(metrics_log) :
          i # j => metrics_log[i].packets_sent # metrics_log[j].packets_sent

\* the raw data gives the resampler nothing to produce: no row at all, or a
\* duration of less than one output tick
Degenerate(times) ==
    times = << >> \/ target_samples(duration_ms(times), BASE_FREQUENCY_HZ) <= 0

\* C16: over a session whose raw sequence is empty or whose target count is
\* not positive, resampling gives an empty result, no packet is generated
\* and no exception leaves the generator: the run is never left with an error
\* in flight.
C16_DegenerateEndsNormally ==
    car_data_loaded /\ Degenerate(car_data)
       => /\ total_interpolated_samples = 0
          /\ yielded = << >>
          /\ exc # "Error"

\* C19: when load_session has reported failure to main(), whether for want
\* of laps or from an error raised anywhere in the load (before the laps,
\* among them, or after the telemetry had been stored), nothing of the stream
\* ever happens: main() is at its print, has returned, or was interrupted at
\* that print; no socket has been created, no packet has been generated and
\* no sendto has been attempted.
C19_LoadFailureStartsNothing ==
    load_result = "False"
       => /\ pc \in {"load_failed", "returned", "crashed"}
          /\ (pc = "crashed" => interrupted_at = "load_failed")
          /\ acquired = 0 /\ sock = "none"
          /\ total_interpolated_samples = 0
          /\ packet_counter = 0
          /\ yielded = << >>
          /\ attempts = << >>
          /\ packets_sent = 0 /\ packets_dropped = 0 /\ bytes_sent = 0

\* main() has returned after a load that failed once the telemetry and the
\* lap table had been stored
C19_Witness ==
    /\ pc = "returned" /\ load_result = "False"
    /\ car_data_loaded /\ lap_boundaries = RawLapBoundaries
    /\ acquired = 0 /\ attempts = << >>

(* ================= properties of the pure functions ==================== *)
\* the scaled range of every row of a lap boundary table
ScaledRanges(lb, total) ==
    [k \in 1..Len(lb) |->
        [s |-> scaled_start(lb[k], scale_factor(lb, total)),
         e |-> scaled_end(lb[k], scale_factor(lb, total))]]

\* C11: for a valid, non-empty lap boundary table and any total uniform
\* count, the scaled ranges [int(start * scale), int((end + 1) * scale) - 1]
\* are pairwise non-overlapping and together cover every index of
\* [0, total - 1], so that the lap locator finds every index in a range.
C11_ScaledRangesPartition ==
    ret.fn = "lap_info" /\ call.lb # << >>
       => LET r == ScaledRanges(call.lb, call.total)
          IN /\ \A j, k \in 1..Len(r) : j < k => r[j].e < r[k].s
             /\ \A i \in 0..(call.total - 1) :
                   \E k \in 1..Len(r) : r[k].s <= i /\ i <= r[k].e
             /\ ret.info.found

\* C12: for every index 0 <= i < total and every lap boundary table, the
\* empty one included, the lap locator returns a lap_progress between 0 and
\* 100 inclusive.
C12_LapProgressInRange ==
    ret.fn = "lap_info"
       => /\ ret.info.progress.den > 0
          /\ 0 <= ret.info.progress.num
          /\ ret.info.progress.num <= 100 * ret.info.progress.den

\* an index inside the second lap, strictly between its ends
C12_Witness ==
    /\ ret.fn = "lap_info" /\ Len(call.lb) = 2
    /\ ret.info.found /\ ret.info.lap = 2
    /\ 0 < ret.info.progress.num
    /\ ret.info.progress.num < 100 * ret.info.progress.den

\* C13: in the scenario of two laps of 100 raw samples over 10 s and 120 raw
\* samples over 11 s, resampled to 10500 uniform samples, the lap locator
\* attributes indices 0..4999 to lap 1 and indices 5000..10499 to lap 2.
C13_ScenarioAttribution ==
    ret.fn = "lap_info" /\ call.lb = ScenarioLaps
       => /\ call.total = 10500
          /\ ret.info.lap = (IF call.idx <= 4999 THEN 1 ELSE 2)

\* C14: for a raw input with at least two distinct timestamps and
\* duration * target_rate >= 1, the output of the resampler has exactly
\* floor(duration_seconds * target_rate) rows.
C14_OutputLength ==
    ret.fn = "interpolate" /\ call.times # << >>
       /\ duration_ms(call.times) * BASE_FREQUENCY_HZ >= 1000
       => Len(ret.offsets) = (duration_ms(call.times) * BASE_FREQUENCY_HZ) \div 1000

\* C15: in the output of the resampler the time offsets are strictly
\* increasing and two consecutive rows differ by exactly 1 / target_rate
\* seconds.
C15_EquallySpaced ==
    ret.fn = "interpolate"
       => \A i \in 1..(Len(ret.offsets) - 1) :
             LET x == ret.offsets[i]
                 y == ret.offsets[i + 1]
             IN /\ x.den = y.den /\ x.num < y.num
                /\ (y.num - x.num) * BASE_FREQUENCY_HZ = 1000 * x.den

\* C17: a generated packet has priority CRITICAL if and only if the water
\* temperature of its sample is greater than 120, whatever its DRS flag, and
\* priority HIGH otherwise; MEDIUM and LOW are never assigned.
C17_PriorityFromWaterTemp ==
    ret.fn = "packet"
       => \A p \in {ret.first, ret.second} :
             /\ p.priority \in {"CRITICAL", "HIGH"}
             /\ (p.priority = "CRITICAL") = (p.water_temp_c > 120)

\* a sample over 120 degrees with DRS open, and one at exactly 120 degrees
C17_Witness ==
    /\ ret.fn = "packet"
    /\ ret.first.water_temp_c > 120 /\ ret.first.drs_active
    /\ ret.first.priority = "CRITICAL"
    /\ ret.second.water_temp_c = 120 /\ ret.second.priority = "HIGH"

\* C20: two runs of the packet generation over the same raw input and the
\* same starting packet id give packets that agree in every field other than
\* the timestamp, the oil and water temperatures and the priority included.
C20_RunsAgree ==
    ret.fn = "packet"
       => [ret.first EXCEPT !.timestamp_ms = 0]
             = [ret.second EXCEPT !.timestamp_ms = 0]

(* ================== properties of the latency window =================== *)
\* number of sendto calls that returned
NumOk(rs) == Cardinality({i \in 1..Len(rs) : rs[i] = "ok"})

\* the last k entries of a sequence
LastK(q, k) == SubSeq(q, Len(q) - k + 1, Len(q))

\* C18: the latency window never holds more than LATENCY_WINDOW_MAXLEN
\* entries; it holds exactly the latencies of the min(1000, s) most recent
\* successful sends, in send order, s being the number of successful sends
\* whose latency has been recorded; a send that failed on a full buffer
\* appends nothing.
C18_LatencyWindow ==
    /\ Len(latencies_us) <= LATENCY_WINDOW_MAXLEN
    /\ Len(latency_log) = NumOk(results) - (IF pc = "record_latency" THEN 1 ELSE 0)
    /\ latencies_us =
          LastK(latency_log,
                IF Len(latency_log) < LATENCY_WINDOW_MAXLEN
                THEN Len(latency_log) ELSE LATENCY_WINDOW_MAXLEN)
    /\ (Outcome = "blocked" /\ pc \in {"count_drop"} \cup CountedPcs
          => latencies_us = iter0.lat)

\* the 1001st latency has been appended and the oldest one has left the
\* window, after a send had failed on a full buffer
C18_Witness ==
    /\ Len(latency_log) = LATENCY_WINDOW_MAXLEN + 1
    /\ Len(latencies_us) = LATENCY_WINDOW_MAXLEN
    /\ latencies_us[1] = latency_log[2]
    /\ latencies_us[1] # latency_log[1]
    /\ latencies_us[LATENCY_WINDOW_MAXLEN] = latency_log[LATENCY_WINDOW_MAXLEN + 1]
    /\ \E i \in 1..Len(results) : results[i] = "blocked"

(* ================== properties of the packet stream ==================== *)
\* C21: within one run the timestamp of the packet with id k is
\* base_timestamp + k * PACKET_INTERVAL_MS: each packet is stamped
\* PACKET_INTERVAL_MS after the one before it, so the timestamps are
\* strictly increasing.
C21_TimestampsByInterval ==
    /\ \A i \in 1..Len(yield_log) :
          yield_log[i].timestamp_ms
             = base_timestamp + yield_log[i].packet_id * PACKET_INTERVAL_MS
    /\ \A i \in 2..Len(yield_log) :
          /\ yield_log[i].packet_id = yield_log[i - 1].packet_id + 1
          /\ yield_log[i].timestamp_ms
                = yield_log[i - 1].timestamp_ms + PACKET_INTERVAL_MS
          /\ yield_log[i].timestamp_ms > yield_log[i - 1].timestamp_ms

\* every packet of the session has been yielded
C21_Witness ==
    /\ Len(yield_log) = NumSamples /\ NumSamples >= 2
    /\ base_timestamp > 0
    /\ yield_log[NumSamples].timestamp_ms
          = yield_log[1].timestamp_ms + (NumSamples - 1) * PACKET_INTERVAL_MS

\* C23: when the index lies in none of the scaled ranges of a non-empty
\* table, the lap locator returns the lap number and the lap time of the
\* last boundary with progress exactly 100; with a valid table that
\* fallback is never taken for an index in [0, total).
C23_FallbackOnlyBeyondTotal ==
    ret.fn = "lap_info" /\ call.lb # << >>
       => /\ (~ret.info.found
                => /\ ret.info.row = Len(call.lb)
                   /\ ret.info.lap = call.lb[Len(call.lb)][3]
                   /\ ret.info.progress = [num |-> 100, den |-> 1])
          /\ (call.idx < call.total => ret.info.found)

(* ==================== properties of the counters ======================= *)
\* number of sendto calls that failed on a full buffer
NumBlocked(rs) == Cardinality({i \in 1..Len(rs) : rs[i] = "blocked"})

\* number of recorded latencies over the budget
NumOverBudget(lats) ==
    Cardinality({i \in 1..Len(lats) : lats[i] > MAX_LATENCY_MS * 1000})

\* C24: between iterations of the send loop, with a packets pulled, b of
\* them failed by backpressure and v of the sent ones over the latency
\* budget, packets_sent = a - b and packets_dropped = b + v; packets_dropped
\* never exceeds the packets pulled and no packet adds more than 1 to it; a
\* complete run with no backpressure and no overrun ends with every packet
\* sent and none dropped.
C24_CounterAccounting ==
    /\ packets_dropped <= Len(yielded)
    /\ (pc \in {"sendto"} \cup AfterSendPcs
          => packets_dropped <= iter0.dropped + 1)
    /\ (exc = "none" /\ pc \in {"generate", "gen_build", "gen_yield", "finally",
                                 "after_close", "done"}
          => /\ packets_sent = Len(yielded) - NumBlocked(results)
             /\ packets_dropped = NumBlocked(results) + NumOverBudget(latency_log))
    /\ (LoopExhausted /\ NumBlocked(results) = 0 /\ NumOverBudget(latency_log) = 0
          => /\ packets_sent = total_interpolated_samples
             /\ packets_dropped = 0)

\* a complete run with a blocked packet and a sent packet over the budget
C24_Witness ==
    /\ pc = "done" /\ exc = "none"
    /\ NumBlocked(results) >= 1 /\ NumOverBudget(latency_log) >= 1
    /\ packets_sent = NumSamples - NumBlocked(results)
    /\ packets_dropped = NumBlocked(results) + NumOverBudget(latency_log)

\* C25: over one stream the lap number reported for successive indices
\* never decreases, and after each loop iteration the current_lap of the
\* streamer is the lap number the lap locator returned for the packet just
\* processed.
C25_LapFollowsLocator ==
    /\ \A i \in 2..Len(yield_log) : yield_log[i - 1].lap <= yield_log[i].lap
    /\ (pc = "generate" /\ yield_log # << >>
          => current_lap = yield_log[Len(yield_log)].lap)

\* the iteration of the first packet of the second lap has ended
C25_Witness ==
    /\ pc = "generate" /\ Len(yield_log) >= 2
    /\ yield_log[1].lap = 1
    /\ yield_log[Len(yield_log)].lap = 2
    /\ yield_log[Len(yield_log) - 1].lap = 1
    /\ current_lap = 2

\* C26: the loss rate of the metrics snapshot,
\* (packets_dropped / max(packets_sent, 1)) * 100, lies between 0 and 100
\* percent in every reachable state of the send loop and in every snapshot.
C26_LossRateInRange ==
    /\ LET r == packet_loss_rate(packets_dropped, packets_sent)
       IN 0 <= r.num /\ r.num <= 100 * r.den
    /\ \A i \in 1..Len(metrics_log) :
          /\ 0 <= metrics_log[i].loss.num
          /\ metrics_log[i].loss.num <= 100 * metrics_log[i].loss.den

\* C22: the packet decoded from the encoding of a packet p has, for every
\* field on the wire, the value of p's field, the floats rounded to the
\* decimals of the encoder (throttle, brake and fuel flow 2, steering 3, oil
\* and tyre pressures 1, ERS store and MGU-K power 0); a payload without the
\* priority key decodes to priority HIGH.
C22_RoundTrip ==
    ret.fn = "roundtrip" =>
       LET p == call.packet
           d == ret.decoded
       IN /\ d.timestamp_ms = p.timestamp_ms
          /\ d.packet_id = p.packet_id
          /\ d.priority = IF call.with_priority THEN PacketPriority[p.priority]
                          ELSE PacketPriority.HIGH
          /\ d.speed_kmh = p.speed_kmh
          /\ d.throttle_percent = py_round(p.throttle_percent, 100)
          /\ d.brake_percent = py_round(p.brake_percent, 100)
          /\ d.steering_angle = py_round(p.steering_angle, 1000)
          /\ d.gear = p.gear
          /\ d.engine_rpm = p.engine_rpm
          /\ d.drs_active = p.drs_active
          /\ d.oil_pressure_bar = py_round(p.oil_pressure_bar, 10)
          /\ d.oil_temp_c = p.oil_temp_c
          /\ d.water_temp_c = p.water_temp_c
          /\ Len(d.tyre_pressure_psi) = Len(p.tyre_pressure_psi)
          /\ \A i \in 1..Len(p.tyre_pressure_psi) :
                d.tyre_pressure_psi[i] = py_round(p.tyre_pressure_psi[i], 10)
          /\ d.tyre_temp_surface_c = p.tyre_temp_surface_c
          /\ d.ers_store_j = py_round(p.ers_store_j, 1)
          /\ d.mguk_power_w = py_round_number(p.mguk_power_w, 1)
          /\ d.fuel_flow_rate_kg_h = py_round(p.fuel_flow_rate_kg_h, 100)

\* a LOW packet with throttle 0.57345 was decoded from a payload without the
\* priority key: the throttle comes back as 0.57, the steering -0.0625 as
\* -0.062, the ERS store 4000000.5 as 4000000.0, the priority as HIGH
C22_Witness ==
    /\ ret.fn = "roundtrip" /\ ~call.with_priority
    /\ call.packet.priority = "LOW"
    /\ call.packet.throttle_percent = PyFloat(57345, 100000)
    /\ ret.decoded.throttle_percent = PyFloat(57, 100)
    /\ ret.decoded.throttle_percent # call.packet.throttle_percent
    /\ call.packet.steering_angle = PyFloat(0 - 1, 16)
    /\ ret.decoded.steering_angle = PyFloat(0 - 62, 1000)
    /\ call.packet.ers_store_j = PyFloat(8000001, 2)
    /\ ret.decoded.ers_store_j = PyFloat(4000000, 1)
    /\ ret.decoded.priority = 1
    /\ ~unpacked_has(ret.payload, "p")

====
